---- MODULE Spec2Model ----
(***************************************************************************)
(* Globe interaction, glitch timer, visitor-marker feed and WebSocket      *)
(* relay of the 3D dot globe site, as state machines.                      *)
(*                                                                         *)
(*   SpecRelay  the relay server            (server/routes.ts revision in  *)
(*              src/unnamed/part_000, lines 58-254)                        *)
(*   SpecFeed   the visitor-marker feed of the globe component             *)
(*              (src/client/src/components/GlobeBackground.tsx 421-955)    *)
(*   SpecDrag   rotation / drag, both revisions of the component           *)
(*   SpecLife   renderer lifecycle and glitch timer                        *)
(*              (GlobeBackground.tsx 1-419, src/unnamed/part_007)          *)
(*                                                                         *)
(* Each specification moves its own variables and leaves the others at     *)
(* their idle value.                                                       *)
(***************************************************************************)
EXTENDS Integers, Sequences, FiniteSets, TLC

VARIABLES
    \* ---- relay server (part_000: registerRoutes) ----
    recentVisitorLocations, \* the in-memory buffer, a sequence of VisitorLocation
    wssClients,             \* wss.clients with each socket's readyState
    srvNow,                 \* the server's Date.now()
    accepted,               \* history: every location the server pushed, in arrival order
    lastEvent,              \* history: the handler that ran last and its input
    sentLog,                \* history: what that handler sent, per client
    \* ---- visitor-marker feed (GlobeBackground.tsx 452-698) ----
    showVisitorMarkers,     \* settings.showVisitorMarkers
    feedMounted,            \* the component is mounted
    visitorMarkers,         \* the React state: a sequence of LocationMarker
    storedVisitorLocation,  \* localStorage item 'visitorLocation'
    sockets,                \* readyState of every WebSocket the client created
    websocketRef,           \* websocketRef.current: a socket, or 0 for null
    geoRequests,            \* sockets whose onopen has a getCurrentPosition call pending
    reconnectTimers,        \* pending setTimeout(..., 5000) reconnect callbacks
    cliNow,                 \* the browser's Date.now()
    devicePosition,         \* what navigator.geolocation answers: <<lat, lng>>, or <<>> when denied
    inboundCount,           \* inbound relay messages handled so far
    inserted,               \* history: markers put in the list since it was last replaced
    feedLast,               \* history: the handler that ran last and its input
    \* ---- rotation and drag (GlobeBackground.tsx, both revisions) ----
    revision,               \* which revision of the component runs
    autoRotate,             \* settings.autoRotate
    rotationSpeed,          \* settings.rotationSpeed
    mouseSensitivity,       \* settings.mouseSensitivity
    phiRef,                 \* phiRef.current, in PhiUnit
    thetaRef,               \* thetaRef.current, in PhiUnit
    pointerInteracting,     \* pointerInteracting.current: <<>> for null, <<x>>
    pointerInteractionMovement, \* pointerInteractionMovement.current
    frameCount,             \* frames rendered so far
    pointerCount,           \* pointer events handled so far
    dragStartPhi,           \* history: phi when the drag session began
    dragLastX,              \* history: clientX of the previous event of the session
    dragDeltaSum,           \* history: sum of the session's move deltas, in pixels
    dragAutoSum,            \* history: auto-rotation added during the session
    movedSinceFrame,        \* history: a move arrived since the last frame / pointer-down
    dragLast,               \* history: the handler that ran last
    \* ---- renderer lifecycle and glitch timer (part_007; GlobeBackground.tsx 40-419) ----
    lifeMounted,            \* the component is mounted (canvasRef.current is the canvas)
    glitchEffect,           \* settings.glitchEffect
    landColor,              \* settings.landColor
    haloColor,              \* settings.haloColor
    instances,              \* every renderer instance createGlobe returned, in creation order
    globeInstanceRef,       \* globeInstanceRef.current: index into instances, 0 for null
    glitchTimerRef,         \* glitchTimerRef.current: <<>> for null, <<settings the callback sees>>
    pendingRecreate,        \* the pending setTimeout(..., 30): <<>> or <<settings it sees>>
    pendingRestore,         \* the pending restore setTimeout: <<>> or <<settings it sees>>
    pendingScanline,        \* the scanline-removal setTimeout is pending
    scanlines,              \* the element #glitch-scanlines is in the document
    lifeLast,               \* history: the handler that ran last
    \* ---- glitch scheduling with a clock (part_007 307-468) ----
    clock,                  \* Date.now(), in ms since mount
    intervalDeadline,       \* the armed setInterval: <<>> or <<time of its next tick>>
    lastGlitchTimeRef,      \* lastGlitchTimeRef.current
    recreateTimers,         \* pending setTimeout(..., 30) callbacks: [at, glitchDuration]
    restoreTimers,          \* pending restore callbacks: [at]
    timedLast,              \* history: the handler that ran last
    \* ---- the visitor's own location on mount (GlobeBackground.tsx 55-107, part_007 226-304) ----
    visitRevision,          \* which of the two effects this run follows
    visitMounted,           \* the component is mounted
    visitShow,              \* shouldShowMarkers as the effect reads it
    visitStorage,           \* localStorage 'visitorLocation'
    visitMarkers,           \* the visitorMarkers state
    visitGeoPending,        \* getCurrentPosition requests not yet answered
    visitNow,               \* Date.now()
    visitPosition,          \* what the browser's geolocation answers
    visitMounts,            \* mounts so far
    visitLast,              \* history: the handler that ran last
    \* ---- renderer construction that may throw (GlobeBackground.tsx 182-267, 269-399, 703-823) ----
    buildRevision,          \* "first" or "second" revision of the component
    buildMounted,           \* the component is mounted
    buildRef,               \* globeInstanceRef.current: 0 for null/undefined, else an instance
    builds,                 \* each renderer instance: "none", "live" or "destroyed"
    buildLast,              \* history: the handler that ran last
    \* ---- connection arcs (part_007 177-223, 471-553) ----
    showArcs,               \* settings.showArcs
    connectionArcs,         \* the connectionArcs state: the progress of each arc, in thousandths
    arcTicks,               \* animation frames run so far
    arcAnimationRef,        \* arcAnimationRef.current holds a requested frame
    arcsDueBy,              \* what made the arcs effect due to run: "none" when it is not
    arcsLast,               \* history: the handler that ran last and the arcs before it
    \* ---- the exported globe.js beside the live preview (Preview.tsx 129-335, GlobeBackground.tsx 759-853) ----
    expAutoRotate,          \* settings.autoRotate of the snapshot
    expRotationSpeed,       \* settings.rotationSpeed of the snapshot
    expMouseSensitivity,    \* settings.mouseSensitivity of the snapshot
    prePhi,                 \* preview: phiRef.current
    preTheta,               \* preview: thetaRef.current
    prePointer,             \* preview: pointerInteracting.current
    prePointerY,            \* preview: pointerInteractionMovement.current
    expPhi,                 \* export: currentPhi (and phi)
    expTheta,               \* export: theta
    expPointer,             \* export: pointerInteracting
    expMovement,            \* export: pointerInteractionMovement
    expFrames,              \* frames rendered so far
    expEvents,              \* pointer events so far
    expLast,                \* history: the handler that ran last
    \* ---- angles across recreations (GlobeBackground.tsx 110-179, 182-399) ----
    carAutoRotate,          \* settings.autoRotate
    carInsts,               \* renderer instances in creation order: [live, currentPhi, currentTheta]
    carRef,                 \* globeInstanceRef.current: 0 for null, else an instance
    carPhiRef,              \* phiRef.current
    carThetaRef,            \* thetaRef.current
    carPointer,             \* pointerInteracting.current
    carMovement,            \* pointerInteractionMovement.current
    carPhase,               \* glitch cycle: "idle", "recreate" pending or "restore" pending
    carFrames,              \* frames rendered so far
    carEvents,              \* pointer events so far
    carLast,                \* history: the handler that ran last
    \* ---- lib/websocket (part_013 34-161) ----
    socket,                 \* the module's socket: 0 for null, else a socket
    reconnectTimeout,       \* the module's reconnectTimeout: 0 for null, else a timer
    libSockets,             \* each socket's readyState, "NONE" before it is created
    connectionTimeouts,     \* sockets whose 10 s connection timeout is pending
    libTimers,              \* reconnect timers: "none", "pending" or "done" (run or cleared)
    sockLast,               \* history: the handler that ran last
    \* ---- coordinate validation as a function (GlobeBackground.tsx 469-475, part_007 6-12) ----
    coordLat,               \* the latitude passed in, whole degrees
    coordLng,               \* the longitude passed in, whole degrees
    coordValid,             \* the pair returned by the last call, if any
    coordLast,              \* history: which function was called last
    \* ---- glitch colour distortion as a function (initGlobe / createGlobe) ----
    colLand,                \* settings.landColor, channels in hundredths
    colHalo,                \* settings.haloColor, channels in hundredths
    colBase,                \* baseColor passed to the renderer
    colGlow,                \* glowColor passed to the renderer
    colLast                 \* history: which construction computed the colours

relayVars == <<recentVisitorLocations, wssClients, srvNow, accepted, lastEvent, sentLog>>

feedVars == <<showVisitorMarkers, feedMounted, visitorMarkers, storedVisitorLocation,
              sockets,
              websocketRef, geoRequests, reconnectTimers, cliNow, devicePosition,
              inboundCount, inserted, feedLast>>

dragVars == <<revision, autoRotate, rotationSpeed, mouseSensitivity, phiRef, thetaRef,
              pointerInteracting, pointerInteractionMovement, frameCount, pointerCount,
              dragStartPhi, dragLastX, dragDeltaSum, dragAutoSum, movedSinceFrame, dragLast>>

lifeVars == <<lifeMounted, glitchEffect, landColor, haloColor, instances, globeInstanceRef,
              glitchTimerRef, pendingRecreate, pendingRestore, pendingScanline, scanlines,
              lifeLast>>

timedVars == <<clock, intervalDeadline, lastGlitchTimeRef, recreateTimers, restoreTimers, timedLast>>

visitVars == <<visitRevision, visitMounted, visitShow, visitStorage, visitMarkers, visitGeoPending, visitNow, visitPosition, visitMounts, visitLast>>

buildVars == <<buildRevision, buildMounted, buildRef, builds, buildLast>>

arcsVars == <<showArcs, connectionArcs, arcTicks, arcAnimationRef, arcsDueBy, arcsLast>>

exportVars == <<expAutoRotate, expRotationSpeed, expMouseSensitivity, prePhi, preTheta, prePointer, prePointerY, expPhi, expTheta, expPointer, expMovement, expFrames, expEvents, expLast>>

carryVars == <<carAutoRotate, carInsts, carRef, carPhiRef, carThetaRef, carPointer, carMovement, carPhase, carFrames, carEvents, carLast>>

sockVars == <<socket, reconnectTimeout, libSockets, connectionTimeouts, libTimers, sockLast>>

coordVars == <<coordLat, coordLng, coordValid, coordLast>>

colorVars == <<colLand, colHalo, colBase, colGlow, colLast>>

vars == <<relayVars, feedVars, dragVars, lifeVars, timedVars, visitVars, buildVars, arcsVars, exportVars, carryVars, sockVars, coordVars, colorVars>>

\* what each part leaves alone
relayOthers == <<feedVars, dragVars, lifeVars, timedVars, visitVars, buildVars, arcsVars, exportVars, carryVars, sockVars, coordVars, colorVars>>
feedOthers == <<relayVars, dragVars, lifeVars, timedVars, visitVars, buildVars, arcsVars, exportVars, carryVars, sockVars, coordVars, colorVars>>
dragOthers == <<relayVars, feedVars, lifeVars, timedVars, visitVars, buildVars, arcsVars, exportVars, carryVars, sockVars, coordVars, colorVars>>
lifeOthers == <<relayVars, feedVars, dragVars, timedVars, visitVars, buildVars, arcsVars, exportVars, carryVars, sockVars, coordVars, colorVars>>
timedOthers == <<relayVars, feedVars, dragVars, lifeVars, visitVars, buildVars, arcsVars, exportVars, carryVars, sockVars, coordVars, colorVars>>
visitOthers == <<relayVars, feedVars, dragVars, lifeVars, timedVars, buildVars, arcsVars, exportVars, carryVars, sockVars, coordVars, colorVars>>
buildOthers == <<relayVars, feedVars, dragVars, lifeVars, timedVars, visitVars, arcsVars, exportVars, carryVars, sockVars, coordVars, colorVars>>
arcsOthers == <<relayVars, feedVars, dragVars, lifeVars, timedVars, visitVars, buildVars, exportVars, carryVars, sockVars, coordVars, colorVars>>
exportOthers == <<relayVars, feedVars, dragVars, lifeVars, timedVars, visitVars, buildVars, arcsVars, carryVars, sockVars, coordVars, colorVars>>
carryOthers == <<relayVars, feedVars, dragVars, lifeVars, timedVars, visitVars, buildVars, arcsVars, exportVars, sockVars, coordVars, colorVars>>
sockOthers == <<relayVars, feedVars, dragVars, lifeVars, timedVars, visitVars, buildVars, arcsVars, exportVars, carryVars, coordVars, colorVars>>
coordOthers == <<relayVars, feedVars, dragVars, lifeVars, timedVars, visitVars, buildVars, arcsVars, exportVars, carryVars, sockVars, colorVars>>
colorOthers == <<relayVars, feedVars, dragVars, lifeVars, timedVars, visitVars, buildVars, arcsVars, exportVars, carryVars, sockVars, coordVars>>

\* an optional JSON field: <<>> when the field is absent, <<v>> when it holds v
Undefined == <<>>
Some(v) == <<v>>
NoType == "undefined"
NoEvent == [kind |-> "none"]

(***************************************************************************)
(* Time.  Date.now() is a millisecond count; thirty days of milliseconds   *)
(* (2 592 000 000) is beyond TLC's 32-bit integers, so an instant is kept  *)
(* as whole days plus milliseconds of the day.                             *)
(***************************************************************************)
MsPerDay == 24 * 60 * 60 * 1000

Time(d, ms) == [d |-> d, ms |-> ms]

\* a + n milliseconds, n >= 0
TimePlusMs(a, n) ==
    LET total == a.ms + n
    IN  Time(a.d + (total \div MsPerDay), total % MsPerDay)

\* a - b, as (days, ms) with 0 <= ms < MsPerDay; days may be negative
TimeMinus(a, b) ==
    IF a.ms >= b.ms THEN Time(a.d - b.d, a.ms - b.ms)
    ELSE Time(a.d - b.d - 1, a.ms + MsPerDay - b.ms)

TimeGT(a, b) == a.d > b.d \/ (a.d = b.d /\ a.ms > b.ms)
TimeGE(a, b) == a = b \/ TimeGT(a, b)

\* the last n elements of a sequence (Array.prototype.slice(-n))
LastN(s, n) == IF Len(s) <= n THEN s ELSE SubSeq(s, Len(s) - n + 1, Len(s))

\* the day the model's clocks start in
Today == 40

(***************************************************************************)
(* Relay server                                                            *)
(***************************************************************************)
MAX_STORED_LOCATIONS == 30

\* bounds of the relay model
NumClients == 3
MaxVisitors == 32

Clients == 1 .. NumClients

\* coordinates a client may put in a new_visitor message
LatInputs == {Undefined, Some(48)}
LngInputs == {Undefined, Some(2)}

\* what arrives on a socket: text that JSON.parse rejects, or an object
ClientMessages ==
    {[parses |-> FALSE, type |-> NoType, latitude |-> Undefined, longitude |-> Undefined]}
    \cup
    {[parses |-> TRUE, type |-> t, latitude |-> la, longitude |-> lo] :
        t \in {"new_visitor", "hello"}, la \in LatInputs, lo \in LngInputs}

NoSends == [c \in Clients |-> <<>>]

\* recentVisitorLocations.push(loc); if (length > MAX) shift()
PushLocation_DropNewest(buf, loc) ==
    LET pushed == Append(buf, loc)
    IN  IF Len(pushed) > MAX_STORED_LOCATIONS THEN SubSeq(pushed, 1, Len(pushed) - 1)
        ELSE pushed

PushLocation(buf, loc) ==
    LET pushed == Append(buf, loc)
    IN  IF Len(pushed) > MAX_STORED_LOCATIONS THEN Tail(pushed) ELSE pushed

\* wss.clients.forEach: client !== ws && client.readyState === ws.OPEN
BroadcastTargets_All(sender, clients) == {c \in Clients : clients[c] = "OPEN"}

BroadcastTargets(sender, clients) ==
    {c \in Clients : c # sender /\ clients[c] = "OPEN"}

\* the greeting of a new connection
InitialMessages_Always(buf) == <<[type |-> "initial_locations", locations |-> buf]>>

InitialMessages(buf) ==
    IF Len(buf) > 0 THEN <<[type |-> "initial_locations", locations |-> buf]>>
    ELSE <<>>

\* the guard of the new_visitor branch
IsNewVisitor(m) ==
    /\ m.parses
    /\ m.type = "new_visitor"
    /\ m.latitude # Undefined
    /\ m.longitude # Undefined

RelayStart ==
    /\ recentVisitorLocations = <<>>
    /\ wssClients = [c \in Clients |-> "ABSENT"]
    /\ srvNow = Time(Today, 0)
    /\ accepted = <<>>
    /\ lastEvent = NoEvent
    /\ sentLog = NoSends

\* wss.on('connection')
OnConnection(c) ==
    /\ wssClients[c] = "ABSENT"
    /\ wssClients' = [wssClients EXCEPT ![c] = "OPEN"]
    /\ sentLog' = [NoSends EXCEPT ![c] = InitialMessages(recentVisitorLocations)]
    /\ lastEvent' = [kind |-> "connection", client |-> c]
    /\ UNCHANGED <<recentVisitorLocations, srvNow, accepted>>
    /\ UNCHANGED relayOthers

\* ws.on('message')
OnMessage(c, m) ==
    /\ wssClients[c] = "OPEN"
    /\ Len(accepted) < MaxVisitors
    /\ lastEvent' = [kind |-> "message", client |-> c, msg |-> m]
    /\ IF IsNewVisitor(m)
       THEN LET visitorLocation ==
                    [latitude |-> m.latitude[1], longitude |-> m.longitude[1],
                     timestamp |-> srvNow]
                msg == [type |-> "visitor_location", location |-> visitorLocation]
            IN  /\ recentVisitorLocations' =
                        PushLocation(recentVisitorLocations, visitorLocation)
                /\ accepted' = Append(accepted, visitorLocation)
                /\ sentLog' = [d \in Clients |->
                                IF d \in BroadcastTargets(c, wssClients)
                                THEN <<msg>> ELSE <<>>]
                /\ srvNow' = TimePlusMs(srvNow, 1)
       ELSE /\ sentLog' = NoSends
            /\ UNCHANGED <<recentVisitorLocations, accepted, srvNow>>
    /\ UNCHANGED wssClients
    /\ UNCHANGED relayOthers

\* a socket starts closing: still in wss.clients, readyState no longer OPEN
BeginClose(c) ==
    /\ wssClients[c] = "OPEN"
    /\ wssClients' = [wssClients EXCEPT ![c] = "CLOSING"]
    /\ lastEvent' = [kind |-> "closing", client |-> c]
    /\ sentLog' = NoSends
    /\ UNCHANGED <<recentVisitorLocations, srvNow, accepted>>
    /\ UNCHANGED relayOthers

\* ws.on('close'): the socket has left wss.clients
OnClose(c) ==
    /\ wssClients[c] = "CLOSING"
    /\ wssClients' = [wssClients EXCEPT ![c] = "ABSENT"]
    /\ lastEvent' = [kind |-> "close", client |-> c]
    /\ sentLog' = NoSends
    /\ UNCHANGED <<recentVisitorLocations, srvNow, accepted>>
    /\ UNCHANGED relayOthers

RelayNext ==
    \/ \E c \in Clients : OnConnection(c)
    \/ \E c \in Clients, m \in ClientMessages : OnMessage(c, m)
    \/ \E c \in Clients : BeginClose(c)
    \/ \E c \in Clients : OnClose(c)

(***************************************************************************)
(* Visitor-marker feed: the effect on [settings.showVisitorMarkers] of the *)
(* globe component and the WebSocket it opens.                             *)
(***************************************************************************)
MaxMarkers == 12
ThirtyDays == Time(30, 0)          \* 30 * 24 * 60 * 60 * 1000 ms
ReconnectDelay == 5000

\* bounds of the feed model
MaxSockets == 2
MaxInbound == 2

SocketIds == 1 .. MaxSockets

\* JavaScript's %: the result takes the sign of the dividend
JsRem(a, n) == IF a >= 0 THEN a % n ELSE 0 - ((0 - a) % n)

Min(a, b) == IF a < b THEN a ELSE b
Max(a, b) == IF a > b THEN a ELSE b

\* validateCoordinates: latitude clamped to [-85, 85], longitude wrapped
ValidateCoordinates(lat, lng) ==
    <<Max(0 - 85, Min(85, lat)), JsRem(lng + 540, 360) - 180>>

\* createMarker (size 0.07 and the teal colour are the same for every marker)
CreateMarker(lat, lng, timestamp) ==
    [location |-> ValidateCoordinates(lat, lng), timestamp |-> timestamp]

\* newMarkers.length > 12 ? newMarkers.slice(-12) : newMarkers
CapMarkers_First12(newMarkers) ==
    IF Len(newMarkers) > MaxMarkers THEN SubSeq(newMarkers, 1, MaxMarkers) ELSE newMarkers

CapMarkers(newMarkers) ==
    IF Len(newMarkers) > MaxMarkers THEN LastN(newMarkers, MaxMarkers) ELSE newMarkers

\* Date.now() - timestamp > thirtyDaysInMs
IsExpired_GE(now, timestamp) == TimeGE(TimeMinus(now, timestamp), ThirtyDays)

IsExpired(now, timestamp) == TimeGT(TimeMinus(now, timestamp), ThirtyDays)

\* generateRandomVisitorLocation: the populated regions with their cumulative
\* weights in thousandths, and the draw of a point inside the chosen box.
\* random is Math.random() in thousandths; u and v are the two further draws,
\* in halves.
PopulatedRegions ==
    << [minLat |-> 25, maxLat |-> 50, minLng |-> 0 - 130, maxLng |-> 0 - 70, cum |-> 200],
       [minLat |-> 35, maxLat |-> 60, minLng |-> 0 - 10, maxLng |-> 30, cum |-> 500],
       [minLat |-> 10, maxLat |-> 50, minLng |-> 70, maxLng |-> 140, cum |-> 850],
       [minLat |-> 0 - 40, maxLat |-> 0 - 10, minLng |-> 110, maxLng |-> 155, cum |-> 900],
       [minLat |-> 0 - 40, maxLat |-> 10, minLng |-> 0 - 80, maxLng |-> 0 - 40, cum |-> 1000] >>

SelectRegion(random) ==
    LET hits == {i \in 1 .. Len(PopulatedRegions) : random <= PopulatedRegions[i].cum}
    IN  IF hits = {} THEN PopulatedRegions[1]
        ELSE PopulatedRegions[CHOOSE i \in hits : \A j \in hits : i <= j]

GenerateRandomVisitorLocation(random, u, v) ==
    LET r == SelectRegion(random)
    IN  << r.minLat + (u * (r.maxLat - r.minLat)) \div 2,
           r.minLng + (v * (r.maxLng - r.minLng)) \div 2 >>

RandomDraws == {870}
LatDraws == {1}
LngDraws == {1}

\* what the browser's geolocation may answer for this visitor: a position, or
\* an error (permission denied, no fix)
Denied == <<>>
Positions == {<<89, 181>>}

\* what localStorage may hold when the component mounts: nothing, text that
\* JSON.parse rejects, or a record whose age is around the 30-day threshold
NoItem == [kind |-> "none", location |-> <<0, 0>>, timestamp |-> Time(0, 0)]
BadItem == [kind |-> "garbage", location |-> <<0, 0>>, timestamp |-> Time(0, 0)]
Item(loc, ts) == [kind |-> "record", location |-> loc, timestamp |-> ts]

NowStart == Time(Today, 500)

StoredChoices ==
    { NoItem, BadItem,
      Item(<<48, 2>>, Time(Today - 30, 501)),         \* 1 ms under thirty days
      Item(<<0 - 88, 200>>, Time(Today - 30, 500)),   \* exactly thirty days
      Item(<<48, 2>>, Time(Today - 30, 499)) }        \* 1 ms over thirty days

\* relay messages the client may receive.  The entries of a batch carry the
\* timestamps start+1 .. start+n (ms of today), ascending or descending.
Loc(lat, lng, ms) == [latitude |-> lat, longitude |-> lng, timestamp |-> Time(Today, ms)]

Batch(start, n, ascending) ==
    [i \in 1 .. n |-> Loc(10 + i, 20, IF ascending THEN start + i ELSE start + n + 1 - i)]

InboundMessages ==
    { [parses |-> FALSE, type |-> NoType, location |-> Undefined, locations |-> <<>>],
      [parses |-> TRUE, type |-> "visitor_location",
       location |-> Some(Loc(0 - 95, 0 - 600, 60)), locations |-> <<>>],
      [parses |-> TRUE, type |-> "initial_locations", location |-> Undefined,
       locations |-> <<>>],
      [parses |-> TRUE, type |-> "initial_locations", location |-> Undefined,
       locations |-> Batch(0, 7, TRUE)],
      [parses |-> TRUE, type |-> "initial_locations", location |-> Undefined,
       locations |-> Batch(7, 8, TRUE)] }

MapSeq(s, F(_)) == [i \in 1 .. Len(s) |-> F(s[i])]

MarkerOf(loc) == CreateMarker(loc.latitude, loc.longitude, loc.timestamp)

\* ws.close(): a socket that is connecting or open starts closing
CloseSocket(socks, id) ==
    IF id # 0 /\ socks[id] \in {"CONNECTING", "OPEN"}
    THEN [socks EXCEPT ![id] = "CLOSING"] ELSE socks

SocketsCreated(socks) == Cardinality({i \in SocketIds : socks[i] # "NONE"})

FeedStart ==
    /\ showVisitorMarkers = TRUE
    /\ feedMounted = FALSE
    /\ visitorMarkers = <<>>
    /\ storedVisitorLocation \in StoredChoices
    /\ sockets = [i \in SocketIds |-> "NONE"]
    /\ websocketRef = 0
    /\ geoRequests = {}
    /\ reconnectTimers = 0
    /\ cliNow = NowStart
    /\ devicePosition \in Positions \cup {Denied}
    /\ inboundCount = 0
    /\ inserted = <<>>
    /\ feedLast = NoEvent

\* The body of the effect, run with showVisitorMarkers true: the stored
\* location is read, then setupWebSocket() creates a socket.
FeedEffectBody(socks) ==
    LET stored == storedVisitorLocation
        expired == stored.kind = "record" /\ IsExpired(cliNow, stored.timestamp)
        usable == stored.kind = "record" /\ ~expired
        marker == CreateMarker(stored.location[1], stored.location[2], stored.timestamp)
        id == SocketsCreated(socks) + 1
    IN  /\ id \in SocketIds
        /\ storedVisitorLocation' = IF stored.kind = "garbage" \/ expired THEN NoItem ELSE stored
        /\ visitorMarkers' = IF usable THEN <<marker>> ELSE visitorMarkers
        /\ inserted' = IF usable THEN <<marker>> ELSE inserted
        /\ sockets' = [socks EXCEPT ![id] = "CONNECTING"]
        /\ websocketRef' = id

\* the component mounts: the effect runs for the first time
FeedMount ==
    /\ UNCHANGED feedOthers
    /\ ~feedMounted
    /\ feedLast.kind = "none"
    /\ feedMounted' = TRUE
    /\ feedLast' = IF showVisitorMarkers
                   THEN [kind |-> "effect", stored |-> storedVisitorLocation,
                         prev |-> visitorMarkers]
                   ELSE [kind |-> "other"]
    /\ IF showVisitorMarkers
       THEN FeedEffectBody(sockets)
       ELSE UNCHANGED <<storedVisitorLocation, visitorMarkers, inserted, sockets, websocketRef>>
    /\ UNCHANGED <<showVisitorMarkers, geoRequests, reconnectTimers, cliNow, devicePosition, inboundCount>>

\* settings.showVisitorMarkers changes: the cleanup of the previous run (if it
\* returned one) closes the socket, then the effect runs again
FeedToggle ==
    /\ UNCHANGED feedOthers
    /\ feedMounted
    /\ showVisitorMarkers' = ~showVisitorMarkers
    /\ feedLast' = IF showVisitorMarkers
                   THEN [kind |-> "other"]
                   ELSE [kind |-> "effect", stored |-> storedVisitorLocation,
                         prev |-> visitorMarkers]
    /\ IF showVisitorMarkers
       THEN \* was on: cleanup, then the early return
            /\ sockets' = CloseSocket(sockets, websocketRef)
            /\ websocketRef' = 0
            /\ UNCHANGED <<storedVisitorLocation, visitorMarkers, inserted>>
       ELSE \* was off: no cleanup was returned; the body runs
            FeedEffectBody(sockets)
    /\ UNCHANGED <<feedMounted, geoRequests, reconnectTimers, cliNow, devicePosition, inboundCount>>

\* the component unmounts: only the effect's cleanup runs
FeedUnmount ==
    /\ UNCHANGED feedOthers
    /\ feedMounted
    /\ feedMounted' = FALSE
    /\ feedLast' = [kind |-> "other"]
    /\ IF showVisitorMarkers
       THEN /\ sockets' = CloseSocket(sockets, websocketRef)
            /\ websocketRef' = 0
       ELSE UNCHANGED <<sockets, websocketRef>>
    /\ UNCHANGED <<showVisitorMarkers, visitorMarkers, storedVisitorLocation, geoRequests,
                   reconnectTimers, cliNow, devicePosition, inboundCount, inserted>>

\* setVisitorMarkers(next): on an unmounted component it changes nothing
PutMarkers(next, added) ==
    /\ visitorMarkers' = IF feedMounted THEN next ELSE visitorMarkers
    /\ inserted' = IF feedMounted THEN inserted \o added ELSE inserted

\* ws.onopen: the geolocation request is started
WsOpen(id) ==
    /\ UNCHANGED feedOthers
    /\ sockets[id] = "CONNECTING"
    /\ sockets' = [sockets EXCEPT ![id] = "OPEN"]
    /\ geoRequests' = geoRequests \cup {id}
    /\ feedLast' = [kind |-> "other"]
    /\ UNCHANGED <<showVisitorMarkers, feedMounted, visitorMarkers, storedVisitorLocation,
                   websocketRef, reconnectTimers, cliNow, devicePosition, inboundCount, inserted>>

\* getCurrentPosition succeeds
GeoSuccess(id, pos) ==
    /\ UNCHANGED feedOthers
    /\ pos = devicePosition
    /\ id \in geoRequests
    /\ geoRequests' = geoRequests \ {id}
    /\ feedLast' = [kind |-> "other"]
    /\ IF sockets[id] = "OPEN"
       THEN LET newMarker == CreateMarker(pos[1], pos[2], cliNow)
            IN  /\ storedVisitorLocation' = Item(pos, cliNow)
                /\ PutMarkers(Append(visitorMarkers, newMarker), <<newMarker>>)
       ELSE UNCHANGED <<storedVisitorLocation, visitorMarkers, inserted>>
    /\ UNCHANGED <<showVisitorMarkers, feedMounted, sockets, websocketRef,
                   reconnectTimers, cliNow, devicePosition, inboundCount>>

\* getCurrentPosition fails or is denied: the populated-region fallback
GeoError(id, random, u, v) ==
    /\ UNCHANGED feedOthers
    /\ devicePosition = Denied
    /\ id \in geoRequests
    /\ geoRequests' = geoRequests \ {id}
    /\ feedLast' = [kind |-> "other"]
    /\ IF sockets[id] = "OPEN"
       THEN LET approximateLocation == GenerateRandomVisitorLocation(random, u, v)
                newMarker == CreateMarker(approximateLocation[1],
                                          approximateLocation[2], cliNow)
            IN  PutMarkers(Append(visitorMarkers, newMarker), <<newMarker>>)
       ELSE UNCHANGED <<visitorMarkers, inserted>>
    /\ UNCHANGED <<showVisitorMarkers, feedMounted, storedVisitorLocation, sockets,
                   websocketRef, reconnectTimers, cliNow, devicePosition, inboundCount>>

\* the two branches of ws.onmessage that add markers
HandlesMessage(data) ==
    /\ data.parses
    /\ \/ data.type = "visitor_location" /\ data.location # Undefined
       \/ data.type = "initial_locations" /\ Len(data.locations) > 0

\* ws.onmessage
WsMessage(id, data) ==
    /\ UNCHANGED feedOthers
    /\ sockets[id] = "OPEN"
    /\ inboundCount < MaxInbound
    /\ inboundCount' = inboundCount + 1
    /\ feedLast' = [kind |-> IF HandlesMessage(data) /\ feedMounted
                             THEN "message" ELSE "other"]
    /\ IF data.parses /\ data.type = "visitor_location" /\ data.location # Undefined
       THEN LET marker == MarkerOf(data.location[1])
            IN  PutMarkers(CapMarkers(Append(visitorMarkers, marker)), <<marker>>)
       ELSE IF data.parses /\ data.type = "initial_locations" /\ Len(data.locations) > 0
       THEN LET markers == MapSeq(data.locations, MarkerOf)
            IN  PutMarkers(CapMarkers(visitorMarkers \o markers), markers)
       ELSE UNCHANGED <<visitorMarkers, inserted>>
    /\ UNCHANGED <<showVisitorMarkers, feedMounted, storedVisitorLocation, sockets,
                   websocketRef, geoRequests, reconnectTimers, cliNow, devicePosition>>

\* ws.onerror: ws.close()
WsError(id) ==
    /\ UNCHANGED feedOthers
    /\ sockets[id] \in {"CONNECTING", "OPEN"}
    /\ sockets' = CloseSocket(sockets, id)
    /\ feedLast' = [kind |-> "other"]
    /\ UNCHANGED <<showVisitorMarkers, feedMounted, visitorMarkers, storedVisitorLocation,
                   websocketRef, geoRequests, reconnectTimers, cliNow, devicePosition, inboundCount,
                   inserted>>

\* ws.onclose, when the connection has closed (after close(), or dropped by
\* the server or the network): the ref is cleared and a reconnect is scheduled
WsClose(id) ==
    /\ UNCHANGED feedOthers
    /\ sockets[id] \in {"CONNECTING", "OPEN", "CLOSING"}
    /\ sockets' = [sockets EXCEPT ![id] = "CLOSED"]
    /\ websocketRef' = 0
    /\ reconnectTimers' = reconnectTimers + 1
    /\ feedLast' = [kind |-> "other"]
    /\ UNCHANGED <<showVisitorMarkers, feedMounted, visitorMarkers, storedVisitorLocation,
                   geoRequests, cliNow, devicePosition, inboundCount, inserted>>

\* the reconnect callback: shouldShowMarkers is the value the effect run saw
\* (true, or the run would have returned before defining setupWebSocket)
ReconnectFire ==
    /\ UNCHANGED feedOthers
    /\ reconnectTimers > 0
    /\ reconnectTimers' = reconnectTimers - 1
    /\ LET id == SocketsCreated(sockets) + 1
       IN  /\ id \in SocketIds
           /\ sockets' = [sockets EXCEPT ![id] = "CONNECTING"]
           /\ websocketRef' = id
           /\ feedLast' = [kind |-> "other"]
    /\ UNCHANGED <<showVisitorMarkers, feedMounted, visitorMarkers, storedVisitorLocation,
                   geoRequests, cliNow, devicePosition, inboundCount, inserted>>

FeedNext ==
    \/ FeedMount
    \/ FeedToggle
    \/ FeedUnmount
    \/ \E id \in SocketIds : WsOpen(id)
    \/ \E id \in SocketIds, pos \in Positions : GeoSuccess(id, pos)
    \/ \E id \in SocketIds, random \in RandomDraws, u \in LatDraws, v \in LngDraws :
          GeoError(id, random, u, v)
    \/ \E id \in SocketIds, data \in InboundMessages : WsMessage(id, data)
    \/ \E id \in SocketIds : WsError(id)
    \/ \E id \in SocketIds : WsClose(id)
    \/ ReconnectFire

(***************************************************************************)
(* Rotation and drag.  GlobeBackground.tsx holds two revisions of the      *)
(* component: the first (lines 1-419) registers listeners on the canvas    *)
(* and applies the drag in onRender; the second (lines 421-955) applies    *)
(* the drag in the React pointer handlers.  Angles are exact multiples of  *)
(* PhiUnit = 1/4000 rad, so that every increment of either revision is an  *)
(* integer; floating-point rounding is left out.                           *)
(***************************************************************************)
Revisions == {"first", "second"}

\* bounds of the drag model
MaxFrames == 3
MaxPointerEvents == 4

\* pointer positions in CSS pixels
ClientXs == {100, 110, 130}
ClientYs == {50, 300}

\* settings (useGlobeSettings.ts defaults: rotationSpeed 3, mouseSensitivity 40)
RotationSpeeds == {3}
MouseSensitivities == {40}

\* Math.PI / 2 in PhiUnit, rounded toward zero
HalfPi == 6283

\* first revision: settings.rotationSpeed / 1000 per frame
AutoIncrementFirst(speed) == 4 * speed

\* first revision: (down - latest) * (settings.mouseSensitivity / 200)
PointerPhiDiff(downX, latestX, sensitivity) == (downX - latestX) * 20 * sensitivity

\* second revision: settings.rotationSpeed / 500 per frame
RotationFactor(speed) == 8 * speed

\* second revision: delta * (settings.mouseSensitivity / 40) / 100
DragIncrement(delta, sensitivity) == delta * sensitivity

\* Math.max(-Math.PI / 2, Math.min(Math.PI / 2, t))
ClampTheta(t) == Max(0 - HalfPi, Min(HalfPi, t))

DragStart ==
    /\ revision \in Revisions
    /\ autoRotate \in BOOLEAN
    /\ rotationSpeed \in RotationSpeeds
    /\ mouseSensitivity \in MouseSensitivities
    /\ phiRef = 0
    /\ thetaRef = 0
    /\ pointerInteracting = Undefined
    /\ pointerInteractionMovement = 0
    /\ frameCount = 0
    /\ pointerCount = 0
    /\ dragStartPhi = 0
    /\ dragLastX = 0
    /\ dragDeltaSum = 0
    /\ dragAutoSum = 0
    /\ movedSinceFrame = FALSE
    /\ dragLast = NoEvent

DragSettings == <<revision, autoRotate, rotationSpeed, mouseSensitivity>>

\* history kept at a pointer-down: a drag session begins
BeginSession(x) ==
    /\ dragStartPhi' = phiRef
    /\ dragLastX' = x
    /\ dragDeltaSum' = 0
    /\ dragAutoSum' = 0
    /\ movedSinceFrame' = FALSE

\* history kept at a move of the session
NoteMove(x) ==
    /\ dragDeltaSum' = dragDeltaSum + (x - dragLastX)
    /\ dragLastX' = x
    /\ movedSinceFrame' = TRUE
    /\ UNCHANGED <<dragStartPhi, dragAutoSum>>

SessionHistory == <<dragStartPhi, dragLastX, dragDeltaSum, dragAutoSum, movedSinceFrame>>

\* first revision, onPointerDown (onTouchStart with one touch does the same).
\* The pointer goes down only when it is up.
OnPointerDown(x) ==
    /\ UNCHANGED dragOthers
    /\ revision = "first"
    /\ pointerCount < MaxPointerEvents
    /\ pointerInteracting = Undefined
    /\ pointerCount' = pointerCount + 1
    /\ pointerInteracting' = Some(x)
    /\ pointerInteractionMovement' = x
    /\ BeginSession(x)
    /\ dragLast' = [kind |-> "down"]
    /\ UNCHANGED <<DragSettings, phiRef, thetaRef, frameCount>>

\* first revision, onPointerMove (onTouchMove with one touch does the same)
OnPointerMove(x) ==
    /\ UNCHANGED dragOthers
    /\ revision = "first"
    /\ pointerCount < MaxPointerEvents
    /\ pointerCount' = pointerCount + 1
    /\ IF pointerInteracting # Undefined
       THEN /\ pointerInteractionMovement' = x
            /\ NoteMove(x)
       ELSE UNCHANGED <<pointerInteractionMovement, SessionHistory>>
    /\ dragLast' = [kind |-> "move"]
    /\ UNCHANGED <<DragSettings, phiRef, thetaRef, pointerInteracting, frameCount>>

\* first revision, onPointerUp (onPointerOut and onTouchEnd do the same)
OnPointerUp ==
    /\ UNCHANGED dragOthers
    /\ revision = "first"
    /\ pointerCount < MaxPointerEvents
    /\ pointerCount' = pointerCount + 1
    /\ pointerInteracting' = Undefined
    /\ dragLast' = [kind |-> "up", dragging |-> pointerInteracting # Undefined]
    /\ UNCHANGED <<DragSettings, phiRef, thetaRef, pointerInteractionMovement, frameCount,
                   SessionHistory>>

\* first revision, onRender
OnRenderFirst ==
    /\ UNCHANGED dragOthers
    /\ revision = "first"
    /\ frameCount < MaxFrames
    /\ frameCount' = frameCount + 1
    /\ LET auto == IF autoRotate
                   THEN AutoIncrementFirst(rotationSpeed) ELSE 0
           diff == IF pointerInteracting # Undefined
                   THEN PointerPhiDiff(pointerInteracting[1], pointerInteractionMovement,
                                       mouseSensitivity)
                   ELSE 0
       IN  /\ phiRef' = phiRef + auto + diff
           /\ dragAutoSum' = IF pointerInteracting # Undefined
                             THEN dragAutoSum + auto ELSE dragAutoSum
    /\ pointerInteractionMovement' =
          IF pointerInteracting # Undefined THEN pointerInteracting[1]
          ELSE pointerInteractionMovement
    /\ movedSinceFrame' = FALSE
    /\ dragLast' = [kind |-> "render", dragging |-> pointerInteracting # Undefined,
                    moved |-> movedSinceFrame, phiBefore |-> phiRef]
    /\ UNCHANGED <<DragSettings, thetaRef, pointerInteracting, pointerCount,
                   dragStartPhi, dragLastX, dragDeltaSum>>

\* second revision, handlePointerDown (handleTouchStart with one touch does
\* the same).  The pointer goes down only when it is up.
HandlePointerDown(x, y) ==
    /\ UNCHANGED dragOthers
    /\ revision = "second"
    /\ pointerCount < MaxPointerEvents
    /\ pointerInteracting = Undefined
    /\ pointerCount' = pointerCount + 1
    /\ pointerInteracting' = Some(x)
    /\ pointerInteractionMovement' = y
    /\ BeginSession(x)
    /\ dragLast' = [kind |-> "down"]
    /\ UNCHANGED <<DragSettings, phiRef, thetaRef, frameCount>>

\* second revision, handlePointerMove (handleTouchMove with one touch does
\* the same)
HandlePointerMove(x, y) ==
    /\ UNCHANGED dragOthers
    /\ revision = "second"
    /\ pointerCount < MaxPointerEvents
    /\ pointerCount' = pointerCount + 1
    /\ IF pointerInteracting # Undefined
       THEN LET deltaX == x - pointerInteracting[1]
                deltaY == y - pointerInteractionMovement
            IN  /\ pointerInteracting' = Some(x)
                /\ pointerInteractionMovement' = y
                /\ phiRef' = phiRef + DragIncrement(deltaX, mouseSensitivity)
                /\ thetaRef' = ClampTheta(thetaRef + DragIncrement(deltaY, mouseSensitivity))
                /\ NoteMove(x)
       ELSE UNCHANGED <<pointerInteracting, pointerInteractionMovement, phiRef, thetaRef,
                        SessionHistory>>
    /\ dragLast' = [kind |-> "move"]
    /\ UNCHANGED <<DragSettings, frameCount>>

\* second revision, handlePointerUp (also bound to onPointerLeave;
\* handleTouchEnd does the same)
HandlePointerUp ==
    /\ UNCHANGED dragOthers
    /\ revision = "second"
    /\ pointerCount < MaxPointerEvents
    /\ pointerCount' = pointerCount + 1
    /\ pointerInteracting' = Undefined
    /\ dragLast' = [kind |-> "up", dragging |-> pointerInteracting # Undefined]
    /\ UNCHANGED <<DragSettings, phiRef, thetaRef, pointerInteractionMovement, frameCount,
                   SessionHistory>>

\* second revision, onRender
OnRenderSecond ==
    /\ UNCHANGED dragOthers
    /\ revision = "second"
    /\ frameCount < MaxFrames
    /\ frameCount' = frameCount + 1
    /\ phiRef' = IF autoRotate /\ pointerInteracting = Undefined
                 THEN phiRef + RotationFactor(rotationSpeed) ELSE phiRef
    /\ movedSinceFrame' = FALSE
    /\ dragLast' = [kind |-> "render", dragging |-> pointerInteracting # Undefined,
                    moved |-> movedSinceFrame, phiBefore |-> phiRef]
    /\ UNCHANGED <<DragSettings, thetaRef, pointerInteracting, pointerInteractionMovement,
                   pointerCount, dragStartPhi, dragLastX, dragDeltaSum, dragAutoSum>>

DragNext ==
    \/ \E x \in ClientXs : OnPointerDown(x)
    \/ \E x \in ClientXs : OnPointerMove(x)
    \/ OnPointerUp
    \/ OnRenderFirst
    \/ \E x \in ClientXs, y \in ClientYs : HandlePointerDown(x, y)
    \/ \E x \in ClientXs, y \in ClientYs : HandlePointerMove(x, y)
    \/ HandlePointerUp
    \/ OnRenderSecond

(***************************************************************************)
(* Renderer lifecycle and glitch timer: the glitch effect on               *)
(* [settings.glitchEffect, settings.landColor] and the main effect on      *)
(* [settings, visitorMarkers] of src/unnamed/part_007 (lines 307-468 and   *)
(* 556-857).  The first revision in GlobeBackground.tsx (lines 110-179 and *)
(* 182-399) is the same code without the scanline overlay, that is, with   *)
(* glitch types 0 and 1 only.                                              *)
(*                                                                         *)
(* Timing: the polling interval is 4000 ms (5000 ms in the first           *)
(* revision) and a cycle ends at most 30 + 500 ms after the tick that      *)
(* began it, so a tick never finds callbacks of a cycle pending; within a  *)
(* cycle the recreate callback (30 ms) precedes the scanline removal       *)
(* (glitchDuration >= 300 ms), which precedes the restore callback         *)
(* (30 ms + glitchDuration).  Settings changes, marker changes, resizes    *)
(* and the unmount may fall anywhere.                                      *)
(***************************************************************************)
\* bound of the lifecycle model: renderer instances created in a behaviour
MaxInstances == 5

Colors == {1, 2}
GlitchTypes == {0, 1, 2}

\* the settings a closure sees: those of the render in which it was created
Snapshot(glitch, land, halo) == [glitchEffect |-> glitch, landColor |-> land, haloColor |-> halo]

\* calling the disposer createGlobe returned and globeInstanceRef holds
Dispose(insts, ref) ==
    IF ref = 0 THEN insts
    ELSE [insts EXCEPT ![ref] = [@ EXCEPT !.live = FALSE, !.disposeCalls = @ + 1]]

\* initGlobe(useGlitchColors) as seen by a closure with settings snap:
\* createGlobe returns a new instance, stored in globeInstanceRef
InitGlobe(insts, useGlitchColors, snap) ==
    Append(insts, [live |-> TRUE, disposeCalls |-> 0, glitch |-> useGlitchColors,
                   landColor |-> snap.landColor, haloColor |-> snap.haloColor])

LifeStart ==
    /\ lifeMounted = FALSE
    /\ glitchEffect \in BOOLEAN
    /\ landColor = 1
    /\ haloColor = 1
    /\ instances = <<>>
    /\ globeInstanceRef = 0
    /\ glitchTimerRef = Undefined
    /\ pendingRecreate = Undefined
    /\ pendingRestore = Undefined
    /\ pendingScanline = FALSE
    /\ scanlines = FALSE
    /\ lifeLast = NoEvent

\* the body of the glitch effect under the new settings: the interval is
\* cleared and, with glitchEffect on, a new one is armed
GlitchEffectBody(glitch, land, halo) ==
    glitchTimerRef' = IF glitch THEN Some(Snapshot(glitch, land, halo)) ELSE Undefined

\* the cleanup of the main effect followed by its body under the new
\* settings: the instance in the ref is disposed, the ref and the glitch timer
\* are cleared, and initGlobe() creates an instance
MainEffectRerun(glitch, land, halo) ==
    /\ Len(instances) < MaxInstances
    /\ instances' = InitGlobe(Dispose(instances, globeInstanceRef), FALSE,
                              Snapshot(glitch, land, halo))
    /\ globeInstanceRef' = Len(instances) + 1

\* the component mounts: the glitch effect runs, then the main effect
LifeMount ==
    /\ UNCHANGED lifeOthers
    /\ ~lifeMounted
    /\ lifeLast.kind = "none"
    /\ lifeMounted' = TRUE
    /\ GlitchEffectBody(glitchEffect, landColor, haloColor)
    /\ MainEffectRerun(glitchEffect, landColor, haloColor)
    /\ lifeLast' = [kind |-> "mount"]
    /\ UNCHANGED <<glitchEffect, landColor, haloColor, pendingRecreate, pendingRestore,
                   pendingScanline, scanlines>>

\* settings.glitchEffect is toggled: both effects are cleaned up (the glitch
\* cleanup removes the scanline element), then both run again
SetGlitchEffect ==
    /\ UNCHANGED lifeOthers
    /\ lifeMounted
    /\ glitchEffect' = ~glitchEffect
    /\ scanlines' = FALSE
    /\ MainEffectRerun(~glitchEffect, landColor, haloColor)
    /\ GlitchEffectBody(~glitchEffect, landColor, haloColor)
    /\ lifeLast' = [kind |-> IF glitchEffect THEN "glitchOff" ELSE "glitchOn"]
    /\ UNCHANGED <<lifeMounted, landColor, haloColor, pendingRecreate, pendingRestore,
                   pendingScanline>>

\* settings.landColor changes: both effects are cleaned up and run again
SetLandColor(c) ==
    /\ UNCHANGED lifeOthers
    /\ lifeMounted
    /\ c # landColor
    /\ landColor' = c
    /\ scanlines' = FALSE
    /\ MainEffectRerun(glitchEffect, c, haloColor)
    /\ GlitchEffectBody(glitchEffect, c, haloColor)
    /\ lifeLast' = [kind |-> "landColor"]
    /\ UNCHANGED <<lifeMounted, glitchEffect, haloColor, pendingRecreate, pendingRestore,
                   pendingScanline>>

\* settings.haloColor (or any setting other than glitchEffect and landColor)
\* changes: only the main effect is cleaned up and run again; its cleanup
\* clears the glitch timer, which nothing arms again
SetHaloColor(c) ==
    /\ UNCHANGED lifeOthers
    /\ lifeMounted
    /\ c # haloColor
    /\ haloColor' = c
    /\ MainEffectRerun(glitchEffect, landColor, c)
    /\ glitchTimerRef' = Undefined
    /\ lifeLast' = [kind |-> "haloColor"]
    /\ UNCHANGED <<lifeMounted, glitchEffect, landColor, pendingRecreate, pendingRestore,
                   pendingScanline, scanlines>>

\* visitorMarkers changes: only the main effect is cleaned up and run again
MarkersChange ==
    /\ UNCHANGED lifeOthers
    /\ lifeMounted
    /\ MainEffectRerun(glitchEffect, landColor, haloColor)
    /\ glitchTimerRef' = Undefined
    /\ lifeLast' = [kind |-> "markers"]
    /\ UNCHANGED <<lifeMounted, glitchEffect, landColor, haloColor, pendingRecreate,
                   pendingRestore, pendingScanline, scanlines>>

\* handleResize
HandleResize ==
    /\ UNCHANGED lifeOthers
    /\ lifeMounted
    /\ IF globeInstanceRef # 0
       THEN MainEffectRerun(glitchEffect, landColor, haloColor)
       ELSE UNCHANGED <<instances, globeInstanceRef>>
    /\ lifeLast' = [kind |-> "resize"]
    /\ UNCHANGED <<lifeMounted, glitchEffect, landColor, haloColor, glitchTimerRef,
                   pendingRecreate, pendingRestore, pendingScanline, scanlines>>

\* the setInterval callback.  hit: Math.random() is at most 0.2 and the last
\* glitch is at least 2000 ms old.
GlitchTick(hit, glitchType) ==
    /\ UNCHANGED lifeOthers
    /\ glitchTimerRef # Undefined
    /\ pendingRecreate = Undefined /\ pendingRestore = Undefined /\ ~pendingScanline
    /\ lifeLast' = [kind |-> "tick"]
    /\ IF lifeMounted /\ globeInstanceRef # 0 /\ hit
       THEN /\ instances' = Dispose(instances, globeInstanceRef)
            /\ pendingRecreate' = glitchTimerRef
            /\ pendingScanline' = (glitchType = 2)
            /\ scanlines' = (scanlines \/ glitchType = 2)
       ELSE UNCHANGED <<instances, pendingRecreate, pendingScanline, scanlines>>
    /\ UNCHANGED <<lifeMounted, glitchEffect, landColor, haloColor, globeInstanceRef,
                   glitchTimerRef, pendingRestore>>

\* the setTimeout(..., 30) callback: initGlobe(true), then the restore
\* callback is scheduled
RecreateFire ==
    /\ UNCHANGED lifeOthers
    /\ pendingRecreate # Undefined
    /\ pendingRecreate' = Undefined
    /\ lifeLast' = [kind |-> "recreate"]
    /\ IF lifeMounted
       THEN /\ Len(instances) < MaxInstances
            /\ instances' = InitGlobe(instances, TRUE, pendingRecreate[1])
            /\ globeInstanceRef' = Len(instances) + 1
            /\ pendingRestore' = pendingRecreate
       ELSE UNCHANGED <<instances, globeInstanceRef, pendingRestore>>
    /\ UNCHANGED <<lifeMounted, glitchEffect, landColor, haloColor, glitchTimerRef,
                   pendingScanline, scanlines>>

\* the scanline-removal setTimeout callback
ScanlineFire ==
    /\ UNCHANGED lifeOthers
    /\ pendingScanline
    /\ pendingRecreate = Undefined
    /\ pendingScanline' = FALSE
    /\ scanlines' = FALSE
    /\ lifeLast' = [kind |-> "scanline"]
    /\ UNCHANGED <<lifeMounted, glitchEffect, landColor, haloColor, instances,
                   globeInstanceRef, glitchTimerRef, pendingRecreate, pendingRestore>>

\* the restore setTimeout callback; settings.glitchEffect is the value its
\* closure sees
RestoreFire ==
    /\ UNCHANGED lifeOthers
    /\ pendingRestore # Undefined
    /\ ~pendingScanline
    /\ pendingRestore' = Undefined
    /\ lifeLast' = [kind |-> "restore"]
    /\ IF lifeMounted /\ pendingRestore[1].glitchEffect /\ globeInstanceRef # 0
       THEN /\ Len(instances) < MaxInstances
            /\ instances' = InitGlobe(Dispose(instances, globeInstanceRef), FALSE,
                                      pendingRestore[1])
            /\ globeInstanceRef' = Len(instances) + 1
       ELSE UNCHANGED <<instances, globeInstanceRef>>
    /\ UNCHANGED <<lifeMounted, glitchEffect, landColor, haloColor, glitchTimerRef,
                   pendingRecreate, pendingScanline, scanlines>>

\* the component unmounts: the cleanups of both effects run
LifeUnmount ==
    /\ UNCHANGED lifeOthers
    /\ lifeMounted
    /\ lifeMounted' = FALSE
    /\ glitchTimerRef' = Undefined
    /\ scanlines' = FALSE
    /\ instances' = Dispose(instances, globeInstanceRef)
    /\ globeInstanceRef' = 0
    /\ lifeLast' = [kind |-> "unmount"]
    /\ UNCHANGED <<glitchEffect, landColor, haloColor, pendingRecreate, pendingRestore,
                   pendingScanline>>

LifeNext ==
    \/ LifeMount
    \/ SetGlitchEffect
    \/ \E c \in Colors : SetLandColor(c)
    \/ \E c \in Colors : SetHaloColor(c)
    \/ MarkersChange
    \/ HandleResize
    \/ \E hit \in BOOLEAN, glitchType \in GlitchTypes : GlitchTick(hit, glitchType)
    \/ RecreateFire
    \/ ScanlineFire
    \/ RestoreFire
    \/ LifeUnmount

(***************************************************************************)
(* Glitch scheduling with a clock: the polling interval, the cooldown test *)
(* and the two setTimeout callbacks of a cycle (part_007 lines 321-453;    *)
(* lines 123-170 of GlobeBackground.tsx differ in the period, 5000 ms, and *)
(* the durations, 100-400 ms).  The component stays mounted with           *)
(* glitchEffect on and a renderer in the ref.  A timer callback runs at or *)
(* after its time, never before, and callbacks that are due run in the     *)
(* order of their times.                                                   *)
(***************************************************************************)
GlitchPeriod == 4000
GlitchCooldown == 2000
RecreateDelay == 30

\* glitchDuration: the shortest and the longest the three glitch types draw
GlitchDurations == {80, 500}

\* bound of the clock, and the steps by which it advances when no callback
\* runs on time
MaxClock == 12000
ClockSteps == {500, 4000}

\* now - lastGlitchTimeRef.current < 2000
InCooldown(now, last) == now - last < GlitchCooldown

\* the times of every pending callback
DueTimes ==
    {intervalDeadline[i] : i \in 1 .. Len(intervalDeadline)}
      \cup {recreateTimers[i].at : i \in 1 .. Len(recreateTimers)}
      \cup {restoreTimers[i].at : i \in 1 .. Len(restoreTimers)}

\* a callback set for time t may run now
MayRun(t) == t <= clock /\ \A u \in DueTimes : t <= u

RemoveAt(s, i) == [j \in 1 .. Len(s) - 1 |-> IF j < i THEN s[j] ELSE s[j + 1]]

TimedStart ==
    /\ clock = 0
    /\ intervalDeadline = Some(GlitchPeriod)
    /\ lastGlitchTimeRef = 0
    /\ recreateTimers = <<>>
    /\ restoreTimers = <<>>
    /\ timedLast = NoEvent

\* time passes until the next callback is due
ClockToNextDue ==
    /\ UNCHANGED timedOthers
    /\ DueTimes # {}
    /\ \A u \in DueTimes : clock < u
    /\ \E t \in DueTimes :
          /\ \A u \in DueTimes : t <= u
          /\ t <= MaxClock
          /\ clock' = t
    /\ timedLast' = [kind |-> "advance"]
    /\ UNCHANGED <<intervalDeadline, lastGlitchTimeRef, recreateTimers, restoreTimers>>

\* time passes while the page runs no callback (a busy main thread, a
\* throttled background tab)
ClockAdvance(dt) ==
    /\ UNCHANGED timedOthers
    /\ clock + dt <= MaxClock
    /\ clock' = clock + dt
    /\ timedLast' = [kind |-> "advance"]
    /\ UNCHANGED <<intervalDeadline, lastGlitchTimeRef, recreateTimers, restoreTimers>>

\* the setInterval callback.  roll: Math.random() is at most 0.2.
TimedTick(roll, glitchDuration) ==
    /\ UNCHANGED timedOthers
    /\ intervalDeadline # Undefined
    /\ MayRun(intervalDeadline[1])
    /\ intervalDeadline' = Some(Max(clock, intervalDeadline[1]) + GlitchPeriod)
    /\ IF ~InCooldown(clock, lastGlitchTimeRef) /\ roll
       THEN /\ lastGlitchTimeRef' = clock
            /\ recreateTimers' = Append(recreateTimers,
                                        [at |-> clock + RecreateDelay,
                                         glitchDuration |-> glitchDuration])
            /\ timedLast' = [kind |-> "glitch"]
       ELSE /\ UNCHANGED <<lastGlitchTimeRef, recreateTimers>>
            /\ timedLast' = [kind |-> "skip"]
    /\ UNCHANGED <<clock, restoreTimers>>

\* the setTimeout(..., 30) callback: the restore callback is scheduled
TimedRecreate(i) ==
    /\ UNCHANGED timedOthers
    /\ i \in 1 .. Len(recreateTimers)
    /\ MayRun(recreateTimers[i].at)
    /\ recreateTimers' = RemoveAt(recreateTimers, i)
    /\ restoreTimers' = Append(restoreTimers, [at |-> clock + recreateTimers[i].glitchDuration])
    /\ timedLast' = [kind |-> "recreate"]
    /\ UNCHANGED <<clock, intervalDeadline, lastGlitchTimeRef>>

\* the restore callback
TimedRestore(i) ==
    /\ UNCHANGED timedOthers
    /\ i \in 1 .. Len(restoreTimers)
    /\ MayRun(restoreTimers[i].at)
    /\ restoreTimers' = RemoveAt(restoreTimers, i)
    /\ timedLast' = [kind |-> "restore"]
    /\ UNCHANGED <<clock, intervalDeadline, lastGlitchTimeRef, recreateTimers>>

\* settings.landColor changes with glitchEffect on: the glitch effect clears
\* the interval and arms a new one
TimedRearm ==
    /\ UNCHANGED timedOthers
    /\ clock + GlitchPeriod <= MaxClock
    /\ intervalDeadline' = Some(clock + GlitchPeriod)
    /\ timedLast' = [kind |-> "rearm"]
    /\ UNCHANGED <<clock, lastGlitchTimeRef, recreateTimers, restoreTimers>>

TimedNext ==
    \/ ClockToNextDue
    \/ \E dt \in ClockSteps : ClockAdvance(dt)
    \/ \E roll \in BOOLEAN, glitchDuration \in GlitchDurations : TimedTick(roll, glitchDuration)
    \/ \E i \in 1 .. 2 : TimedRecreate(i)
    \/ \E i \in 1 .. 2 : TimedRestore(i)
    \/ TimedRearm

(***************************************************************************)
(* The visitor's own location: the effect that reads localStorage on mount *)
(* and otherwise asks the browser for the position.  "first" is lines      *)
(* 55-107 of GlobeBackground.tsx (dependencies [], the switch read from    *)
(* localStorage 'showLocationMarkers'); "part007" is lines 226-304 of      *)
(* part_007 (dependencies [settings.showVisitorMarkers]).  The browser     *)
(* has navigator.geolocation.                                              *)
(***************************************************************************)
VisitRevisions == {"first", "part007"}

\* bounds of this model
MaxVisitMounts == 3
MaxVisitDays == 2
MaxVisitPending == 2

\* the record is absent, unparsable or older than thirty days
NoValidRecord(stored, now) ==
    \/ stored.kind = "none"
    \/ stored.kind = "garbage"
    \/ stored.kind = "record" /\ IsExpired(now, stored.timestamp)

\* the branch that calls navigator.geolocation.getCurrentPosition:
\* else if (navigator.geolocation && shouldShowMarkers), the else of
\* if (storedLocation)
RequestsPosition(stored, now, shouldShowMarkers) ==
    stored.kind = "none" /\ shouldShowMarkers

VisitStart ==
    /\ visitRevision \in VisitRevisions
    /\ visitMounted = FALSE
    /\ visitShow \in BOOLEAN
    /\ visitStorage \in StoredChoices
    /\ visitMarkers = <<>>
    /\ visitGeoPending = 0
    /\ visitNow = NowStart
    /\ visitPosition \in Positions \cup {Denied}
    /\ visitMounts = 0
    /\ visitLast = NoEvent

\* the body of the effect
VisitEffectBody ==
    LET stored == visitStorage
        parsed == stored.kind = "record"
        isExpired == parsed /\ IsExpired(visitNow, stored.timestamp)
        requested == RequestsPosition(stored, visitNow, visitShow)
    IN  /\ visitStorage' = IF stored.kind = "garbage" \/ isExpired THEN NoItem ELSE stored
        /\ visitMarkers' = IF isExpired THEN <<>>
                           ELSE IF parsed /\ visitShow
                                THEN <<[location |-> stored.location,
                                        timestamp |-> stored.timestamp]>>
                                ELSE visitMarkers
        /\ visitGeoPending' = IF requested THEN visitGeoPending + 1 ELSE visitGeoPending
        /\ visitLast' = [kind |-> "effect", stored |-> stored, show |-> visitShow,
                         requested |-> requested]

\* the component mounts (a page load): state starts empty, the effect runs
VisitMount ==
    /\ UNCHANGED visitOthers
    /\ ~visitMounted
    /\ visitMounts < MaxVisitMounts
    /\ visitGeoPending < MaxVisitPending
    /\ visitMounts' = visitMounts + 1
    /\ visitMounted' = TRUE
    /\ VisitEffectBody
    /\ UNCHANGED <<visitRevision, visitShow, visitNow, visitPosition>>

\* the visitor-marker switch changes; only part_007's effect depends on it
VisitToggle ==
    /\ UNCHANGED visitOthers
    /\ visitMounted
    /\ visitGeoPending < MaxVisitPending
    /\ visitShow' = ~visitShow
    /\ IF visitRevision = "part007"
       THEN LET stored == visitStorage
                parsed == stored.kind = "record"
                isExpired == parsed /\ IsExpired(visitNow, stored.timestamp)
                requested == RequestsPosition(stored, visitNow, visitShow')
            IN  /\ visitStorage' = IF stored.kind = "garbage" \/ isExpired
                                   THEN NoItem ELSE stored
                /\ visitMarkers' = IF isExpired THEN <<>>
                                   ELSE IF parsed /\ visitShow'
                                        THEN <<[location |-> stored.location,
                                                timestamp |-> stored.timestamp]>>
                                        ELSE visitMarkers
                /\ visitGeoPending' = IF requested THEN visitGeoPending + 1
                                      ELSE visitGeoPending
                /\ visitLast' = [kind |-> "rerun", stored |-> stored, show |-> visitShow',
                                 requested |-> requested]
       ELSE /\ visitLast' = [kind |-> "other"]
            /\ UNCHANGED <<visitStorage, visitMarkers, visitGeoPending>>
    /\ UNCHANGED <<visitRevision, visitMounted, visitNow, visitPosition, visitMounts>>

\* the page is left: the state of the component is gone, localStorage stays
VisitUnmount ==
    /\ UNCHANGED visitOthers
    /\ visitMounted
    /\ visitMounted' = FALSE
    /\ visitMarkers' = <<>>
    /\ visitLast' = [kind |-> "other"]
    /\ UNCHANGED <<visitRevision, visitShow, visitStorage, visitGeoPending, visitNow,
                   visitPosition, visitMounts>>

\* the success callback of getCurrentPosition
VisitGeoSuccess(pos) ==
    /\ UNCHANGED visitOthers
    /\ pos = visitPosition
    /\ visitGeoPending > 0
    /\ visitGeoPending' = visitGeoPending - 1
    /\ visitStorage' = Item(pos, visitNow)
    /\ LET location == IF visitRevision = "part007"
                       THEN ValidateCoordinates(pos[1], pos[2]) ELSE pos
           newMarker == [location |-> location, timestamp |-> visitNow]
       IN  visitMarkers' = IF visitMounted THEN <<newMarker>> ELSE visitMarkers
    /\ visitLast' = [kind |-> "other"]
    /\ UNCHANGED <<visitRevision, visitMounted, visitShow, visitNow, visitPosition, visitMounts>>

\* the error callback of getCurrentPosition: part_007 falls back to a
\* populated region, the first revision only logs
VisitGeoError(random, u, v) ==
    /\ UNCHANGED visitOthers
    /\ visitPosition = Denied
    /\ visitGeoPending > 0
    /\ visitGeoPending' = visitGeoPending - 1
    /\ LET approximateLocation == GenerateRandomVisitorLocation(random, u, v)
           newMarker == [location |-> ValidateCoordinates(approximateLocation[1],
                                                          approximateLocation[2]),
                         timestamp |-> visitNow]
       IN  visitMarkers' = IF visitRevision = "part007" /\ visitMounted
                           THEN <<newMarker>> ELSE visitMarkers
    /\ visitLast' = [kind |-> "other"]
    /\ UNCHANGED <<visitRevision, visitMounted, visitShow, visitStorage, visitNow,
                   visitPosition, visitMounts>>

\* a day passes
VisitDayPasses ==
    /\ UNCHANGED visitOthers
    /\ visitNow.d < Today + MaxVisitDays
    /\ visitNow' = Time(visitNow.d + 1, visitNow.ms)
    /\ visitLast' = [kind |-> "other"]
    /\ UNCHANGED <<visitRevision, visitMounted, visitShow, visitStorage, visitMarkers,
                   visitGeoPending, visitPosition, visitMounts>>

VisitNext ==
    \/ VisitMount
    \/ VisitToggle
    \/ VisitUnmount
    \/ \E pos \in Positions : VisitGeoSuccess(pos)
    \/ \E random \in RandomDraws, u \in LatDraws, v \in LngDraws : VisitGeoError(random, u, v)
    \/ VisitDayPasses

(***************************************************************************)
(* Renderer construction that may throw.  createGlobe either returns a new *)
(* instance or throws; initGlobe catches the exception and returns         *)
(* undefined.  "first" is lines 182-399 of GlobeBackground.tsx, "second"   *)
(* is lines 703-823.                                                       *)
(***************************************************************************)
\* bound: renderer instances constructed in one run
MaxBuilds == 5

BuildIds == 1 .. MaxBuilds

BuildsCreated(b) == Cardinality({i \in BuildIds : b[i] # "none"})

\* globeInstanceRef.current() / globeInstanceRef.current.destroy()
Destroy(b, ref) == IF ref = 0 THEN b ELSE [b EXCEPT ![ref] = "destroyed"]

\* initGlobe with the outcome of createGlobe: the instances and the ref after
\* the call, and what initGlobe returned as a handle (the second revision
\* returns the instance, or undefined from the catch)
InitGlobeMayThrow(b, ref, ok) ==
    LET id == BuildsCreated(b) + 1
    IN  IF ok
        THEN [builds |-> [b EXCEPT ![id] = "live"], ref |-> id, returned |-> id]
        ELSE [builds |-> b, ref |-> ref, returned |-> 0]

BuildStart ==
    /\ buildRevision \in Revisions
    /\ buildMounted = FALSE
    /\ buildRef = 0
    /\ builds = [i \in BuildIds |-> "none"]
    /\ buildLast = NoEvent

CanBuild(ok) == ok => BuildsCreated(builds) < MaxBuilds

\* the cleanup of the main effect: the first revision empties the ref after
\* disposing, the second leaves it
MainCleanupRef(ref) == IF buildRevision = "first" THEN 0 ELSE ref

\* the component mounts: the main effect runs initGlobe
BuildMount(ok) ==
    /\ UNCHANGED buildOthers
    /\ ~buildMounted
    /\ buildLast.kind = "none"
    /\ CanBuild(ok)
    /\ buildMounted' = TRUE
    /\ LET r == InitGlobeMayThrow(builds, buildRef, ok)
       IN  /\ builds' = r.builds
           /\ buildRef' = r.ref
    /\ buildLast' = [kind |-> "mount", afterFailure |-> FALSE, attempted |-> TRUE,
                     failed |-> ~ok]
    /\ UNCHANGED buildRevision

\* settings or the marker list change: the effect's cleanup, then its body
BuildSettingsChange(ok) ==
    /\ UNCHANGED buildOthers
    /\ buildMounted
    /\ CanBuild(ok)
    /\ LET cleaned == Destroy(builds, buildRef)
           r == InitGlobeMayThrow(cleaned, MainCleanupRef(buildRef), ok)
       IN  /\ builds' = r.builds
           /\ buildRef' = r.ref
    /\ buildLast' = [kind |-> "settings", afterFailure |-> buildLast.failed,
                     attempted |-> TRUE, failed |-> ~ok]
    /\ UNCHANGED <<buildRevision, buildMounted>>

\* window resize: handleResize
BuildResize(ok) ==
    /\ UNCHANGED buildOthers
    /\ buildMounted
    /\ CanBuild(ok)
    /\ IF buildRef # 0
       THEN LET cleaned == Destroy(builds, buildRef)
                r == InitGlobeMayThrow(cleaned,
                                       IF buildRevision = "first" THEN 0 ELSE buildRef, ok)
            IN  /\ builds' = r.builds
                /\ buildRef' = IF buildRevision = "first" THEN r.ref ELSE r.returned
                /\ buildLast' = [kind |-> "resize", afterFailure |-> buildLast.failed,
                                 attempted |-> TRUE, failed |-> ~ok]
       ELSE /\ UNCHANGED <<builds, buildRef>>
            /\ buildLast' = [kind |-> "resize", afterFailure |-> buildLast.failed,
                             attempted |-> FALSE, failed |-> buildLast.failed]
    /\ UNCHANGED <<buildRevision, buildMounted>>

\* the component unmounts: the effect's cleanup
BuildUnmount ==
    /\ UNCHANGED buildOthers
    /\ buildMounted
    /\ buildMounted' = FALSE
    /\ builds' = Destroy(builds, buildRef)
    /\ buildRef' = MainCleanupRef(buildRef)
    /\ buildLast' = [kind |-> "unmount", afterFailure |-> buildLast.failed,
                     attempted |-> FALSE, failed |-> FALSE]
    /\ UNCHANGED buildRevision

BuildNext ==
    \/ \E ok \in BOOLEAN : BuildMount(ok)
    \/ \E ok \in BOOLEAN : BuildSettingsChange(ok)
    \/ \E ok \in BOOLEAN : BuildResize(ok)
    \/ BuildUnmount

(***************************************************************************)
(* Connection arcs: the effect on [showArcs, arcColor, headquarters,       *)
(* connectionArcs] of part_007 and its requestAnimationFrame loop.         *)
(* Progress is kept in thousandths.  An arc's end points and colour play   *)
(* no part in the loop and are left out.  A state change re-renders, and   *)
(* the effect re-runs with the new list, before the next frame.  Every     *)
(* array handed to setConnectionArcs is a new object, so it always counts  *)
(* as a change of the connectionArcs dependency.                           *)
(***************************************************************************)
InitialArcCount == 6
MaxArcs == 8
ProgressDone == 1000

\* bound: animation frames in one run
MaxArcTicks == 12

\* the progress the six initial arcs have in common when the run starts: just
\* created, and just before each change of speed and before completion
StartProgress == {0, 696, 848, 990}

\* createNewConnectionArc
CreateNewConnectionArc == [progress |-> 0]

\* progressStep of animateArcs
ProgressStep(progress) ==
    IF progress < 700 THEN 4
    ELSE IF progress < 850 THEN 2
    ELSE 1

SelectNotDone(arc) == arc.progress + ProgressStep(arc.progress) < ProgressDone

\* connectionArcs.map(...) of animateArcs
UpdatedArcs_Filter(arcs) ==
    LET kept == SelectSeq(arcs, SelectNotDone)
    IN  [i \in 1 .. Len(kept) |->
            [kept[i] EXCEPT !.progress = kept[i].progress + ProgressStep(kept[i].progress)]]

UpdatedArcs(arcs) ==
    [i \in 1 .. Len(arcs) |->
        LET newProgress == arcs[i].progress + ProgressStep(arcs[i].progress)
        IN  IF newProgress >= ProgressDone
            THEN CreateNewConnectionArc
            ELSE [arcs[i] EXCEPT !.progress = newProgress]]

\* Array.from({ length: 6 }, () => createNewConnectionArc())
InitialArcs == [i \in 1 .. InitialArcCount |-> CreateNewConnectionArc]

\* connectionArcs.length < 8
MayAppend_Always(arcs) == TRUE

MayAppend(arcs) == Len(arcs) < MaxArcs

\* With showArcs on the run starts in the animation loop: the effect has run,
\* a frame is requested.  With showArcs off it starts at the mount, the effect
\* still to run on the empty list of useState([]).
ArcsStart ==
    /\ showArcs \in BOOLEAN
    /\ connectionArcs \in
         IF showArcs
         THEN {[i \in 1 .. InitialArcCount |-> [progress |-> p]] : p \in StartProgress}
         ELSE {<<>>}
    /\ arcTicks = 0
    /\ arcAnimationRef = showArcs
    /\ arcsDueBy = IF showArcs THEN "none" ELSE "settings"
    /\ arcsLast = NoEvent

\* The effect runs (after the cleanup of its previous run, which cancels the
\* requested frame).  setConnectionArcs with a new array changes the
\* connectionArcs dependency, which makes the effect due again.
ArcsEffect ==
    /\ UNCHANGED arcsOthers
    /\ arcsDueBy # "none"
    /\ IF ~showArcs
       THEN /\ connectionArcs' = <<>>
            /\ arcAnimationRef' = FALSE
            /\ arcsDueBy' = "effect"
       ELSE IF Len(connectionArcs) = 0
       THEN /\ connectionArcs' = InitialArcs
            /\ arcAnimationRef' = TRUE
            /\ arcsDueBy' = "effect"
       ELSE /\ arcAnimationRef' = TRUE
            /\ arcsDueBy' = "none"
            /\ UNCHANGED connectionArcs
    /\ arcsLast' = [kind |-> "effect", prev |-> connectionArcs, added |-> FALSE]
    /\ UNCHANGED <<showArcs, arcTicks>>

\* one frame: animateArcs.  added is Math.random() < 0.005
AnimateArcs(added) ==
    /\ UNCHANGED arcsOthers
    /\ arcAnimationRef
    /\ arcsDueBy = "none"
    /\ arcTicks < MaxArcTicks
    /\ arcTicks' = arcTicks + 1
    /\ LET updatedArcs == UpdatedArcs(connectionArcs)
       IN  connectionArcs' = IF added /\ MayAppend(connectionArcs)
                             THEN Append(updatedArcs, CreateNewConnectionArc)
                             ELSE updatedArcs
    /\ arcsDueBy' = "tick"
    /\ arcsLast' = [kind |-> "tick", prev |-> connectionArcs, added |-> added]
    /\ UNCHANGED <<showArcs, arcAnimationRef>>

\* settings.showArcs changes (the effect of an earlier change has run)
ToggleShowArcs ==
    /\ UNCHANGED arcsOthers
    /\ arcsDueBy # "settings"
    /\ showArcs' = ~showArcs
    /\ arcsDueBy' = "settings"
    /\ arcsLast' = [kind |-> "other", prev |-> connectionArcs, added |-> FALSE]
    /\ UNCHANGED <<connectionArcs, arcTicks, arcAnimationRef>>

ArcsNext ==
    \/ ArcsEffect
    \/ \E added \in BOOLEAN : AnimateArcs(added)
    \/ ToggleShowArcs

(***************************************************************************)
(* The exported globe.js (the template in Preview.tsx, lines 129-335) run  *)
(* beside the live preview component (GlobeBackground.tsx, lines 759-778   *)
(* and 826-860), both with the settings of the snapshot and both fed the   *)
(* same frames and pointer events.  Angles are in PhiUnit.                 *)
(***************************************************************************)
\* bounds of this model
MaxExportFrames == 3
MaxExportEvents == 3

\* let theta = 0.3 of globe.js, in PhiUnit
ExportTheta == 1200

\* globe.js onRender: the new currentPhi
ExportOnRender(currentPhi, pointer, movement, auto, speed, sensitivity) ==
    currentPhi
      + (IF auto THEN AutoIncrementFirst(speed) ELSE 0)
      + (IF pointer # Undefined THEN PointerPhiDiff(pointer[1], movement, sensitivity) ELSE 0)

\* the preview's onRender: the new phiRef.current
PreviewOnRender(phi, pointer, auto, speed) ==
    IF auto /\ pointer = Undefined THEN phi + RotationFactor(speed) ELSE phi

ExportStart ==
    /\ expAutoRotate \in BOOLEAN
    /\ expRotationSpeed \in RotationSpeeds
    /\ expMouseSensitivity \in MouseSensitivities
    /\ prePhi = 0
    /\ preTheta = 0
    /\ prePointer = Undefined
    /\ prePointerY = 0
    /\ expPhi = 0
    /\ expTheta = ExportTheta
    /\ expPointer = Undefined
    /\ expMovement = 0
    /\ expFrames = 0
    /\ expEvents = 0
    /\ expLast = NoEvent

ExportSettings == <<expAutoRotate, expRotationSpeed, expMouseSensitivity>>

\* pointerdown on both canvases: handlePointerDown and onPointerDown
BothPointerDown(x, y) ==
    /\ UNCHANGED exportOthers
    /\ expEvents < MaxExportEvents
    /\ prePointer = Undefined
    /\ expEvents' = expEvents + 1
    /\ prePointer' = Some(x)
    /\ prePointerY' = y
    /\ expPointer' = Some(x)
    /\ expLast' = [kind |-> "down"]
    /\ UNCHANGED <<ExportSettings, prePhi, preTheta, expPhi, expTheta, expMovement, expFrames>>

\* pointermove on both: handlePointerMove and onPointerMove
BothPointerMove(x, y) ==
    /\ UNCHANGED exportOthers
    /\ expEvents < MaxExportEvents
    /\ expEvents' = expEvents + 1
    /\ IF prePointer # Undefined
       THEN /\ prePointer' = Some(x)
            /\ prePointerY' = y
            /\ prePhi' = prePhi + DragIncrement(x - prePointer[1], expMouseSensitivity)
            /\ preTheta' = ClampTheta(preTheta
                                      + DragIncrement(y - prePointerY, expMouseSensitivity))
       ELSE UNCHANGED <<prePointer, prePointerY, prePhi, preTheta>>
    /\ expMovement' = IF expPointer # Undefined THEN x ELSE expMovement
    /\ expLast' = [kind |-> "move"]
    /\ UNCHANGED <<ExportSettings, expPhi, expTheta, expPointer, expFrames>>

\* pointerup on both: handlePointerUp and onPointerUp
BothPointerUp ==
    /\ UNCHANGED exportOthers
    /\ expEvents < MaxExportEvents
    /\ expEvents' = expEvents + 1
    /\ prePointer' = Undefined
    /\ expPointer' = Undefined
    /\ expLast' = [kind |-> "up"]
    /\ UNCHANGED <<ExportSettings, prePhi, preTheta, prePointerY, expPhi, expTheta,
                   expMovement, expFrames>>

\* one rendered frame of both
BothOnRender ==
    /\ UNCHANGED exportOthers
    /\ expFrames < MaxExportFrames
    /\ expFrames' = expFrames + 1
    /\ prePhi' = PreviewOnRender(prePhi, prePointer, expAutoRotate, expRotationSpeed)
    /\ expPhi' = ExportOnRender(expPhi, expPointer, expMovement, expAutoRotate,
                                expRotationSpeed, expMouseSensitivity)
    /\ expMovement' = IF expPointer # Undefined THEN expPointer[1] ELSE expMovement
    /\ expLast' = [kind |-> "render", dragging |-> prePointer # Undefined]
    /\ UNCHANGED <<ExportSettings, preTheta, prePointer, prePointerY, expTheta, expPointer,
                   expEvents>>

ExportNext ==
    \/ \E x \in ClientXs, y \in ClientYs : BothPointerDown(x, y)
    \/ \E x \in ClientXs, y \in ClientYs : BothPointerMove(x, y)
    \/ BothPointerUp
    \/ BothOnRender

(***************************************************************************)
(* Angles across recreations, first revision of GlobeBackground.tsx:       *)
(* initGlobe copies phiRef and thetaRef into the closure variables         *)
(* currentPhi and currentTheta of the new instance, and each frame of an   *)
(* instance writes its currentPhi back to phiRef.  The component is        *)
(* mounted with glitchEffect on, rotationSpeed 3 and mouseSensitivity 40.  *)
(* In one frame every live instance renders once, in the order in which    *)
(* the instances were created.  The recreate callback of a glitch cycle    *)
(* runs 30 ms after the tick, so a frame, a resize or a marker change may  *)
(* fall in between.                                                        *)
(***************************************************************************)
\* bounds of this model
MaxCarryInsts == 5
MaxCarryFrames == 2
MaxCarryEvents == 2

CarryXs == {100, 110}

\* createGlobe inside initGlobe: the new instance starts at the two refs
CarryInitGlobe(insts, phi, theta) ==
    Append(insts, [live |-> TRUE, currentPhi |-> phi, currentTheta |-> theta])

\* calling the disposer globeInstanceRef holds
CarryDispose(insts, ref) ==
    IF ref = 0 THEN insts ELSE [insts EXCEPT ![ref] = [@ EXCEPT !.live = FALSE]]

LiveInsts(insts) == {i \in 1 .. Len(insts) : insts[i].live}

\* the angles the instance ref showed in its last frame (those it started
\* with when it has rendered none)
ShownBy(insts, ref) == <<insts[ref].currentPhi, insts[ref].currentTheta>>

\* history of a recreation: the angles of the instance registered before
\* and those of the new instance
Recreated(via, before, ref, after) ==
    [kind |-> "create", via |-> via,
     prev |-> ShownBy(before, ref),
     start |-> ShownBy(after, Len(after))]

CarryStart ==
    /\ carAutoRotate \in BOOLEAN
    /\ carInsts = CarryInitGlobe(<<>>, 0, 0)
    /\ carRef = 1
    /\ carPhiRef = 0
    /\ carThetaRef = 0
    /\ carPointer = Undefined
    /\ carMovement = 0
    /\ carPhase = "idle"
    /\ carFrames = 0
    /\ carEvents = 0
    /\ carLast = NoEvent

CarrySettings == <<carAutoRotate>>

\* one frame: onRender of every live instance, oldest first
CarryOnRender ==
    /\ UNCHANGED carryOthers
    /\ carFrames < MaxCarryFrames
    /\ carFrames' = carFrames + 1
    /\ LET live == LiveInsts(carInsts)
           first == CHOOSE i \in live : \A j \in live : i <= j
           last == CHOOSE i \in live : \A j \in live : i >= j
           auto == IF carAutoRotate THEN AutoIncrementFirst(3) ELSE 0
           diff(i) == IF carPointer # Undefined /\ i = first
                      THEN PointerPhiDiff(carPointer[1], carMovement, 40) ELSE 0
           rendered == [i \in 1 .. Len(carInsts) |->
                           IF carInsts[i].live
                           THEN [carInsts[i] EXCEPT !.currentPhi = @ + auto + diff(i)]
                           ELSE carInsts[i]]
       IN  IF live = {}
           THEN UNCHANGED <<carInsts, carPhiRef, carThetaRef, carMovement>>
           ELSE /\ carInsts' = rendered
                /\ carPhiRef' = rendered[last].currentPhi
                /\ carThetaRef' = rendered[last].currentTheta
                /\ carMovement' = IF carPointer # Undefined THEN carPointer[1]
                                  ELSE carMovement
    /\ carLast' = [kind |-> "other"]
    /\ UNCHANGED <<CarrySettings, carRef, carPointer, carPhase, carEvents>>

\* onPointerDown
CarryPointerDown(x) ==
    /\ UNCHANGED carryOthers
    /\ carEvents < MaxCarryEvents
    /\ carPointer = Undefined
    /\ carEvents' = carEvents + 1
    /\ carPointer' = Some(x)
    /\ carMovement' = x
    /\ carLast' = [kind |-> "other"]
    /\ UNCHANGED <<CarrySettings, carInsts, carRef, carPhiRef, carThetaRef, carPhase, carFrames>>

\* onPointerMove
CarryPointerMove(x) ==
    /\ UNCHANGED carryOthers
    /\ carEvents < MaxCarryEvents
    /\ carPointer # Undefined
    /\ carEvents' = carEvents + 1
    /\ carMovement' = x
    /\ carLast' = [kind |-> "other"]
    /\ UNCHANGED <<CarrySettings, carInsts, carRef, carPhiRef, carThetaRef, carPointer,
                   carPhase, carFrames>>

\* onPointerUp
CarryPointerUp ==
    /\ UNCHANGED carryOthers
    /\ carEvents < MaxCarryEvents
    /\ carPointer # Undefined
    /\ carEvents' = carEvents + 1
    /\ carPointer' = Undefined
    /\ carLast' = [kind |-> "other"]
    /\ UNCHANGED <<CarrySettings, carInsts, carRef, carPhiRef, carThetaRef, carMovement,
                   carPhase, carFrames>>

\* the marker list (or a setting other than the glitch ones) changes: the
\* main effect's cleanup disposes and empties the ref, its body recreates
CarryMarkersChange ==
    /\ UNCHANGED carryOthers
    /\ Len(carInsts) < MaxCarryInsts
    /\ LET disposed == CarryDispose(carInsts, carRef)
           after == CarryInitGlobe(disposed, carPhiRef, carThetaRef)
       IN  /\ carInsts' = after
           /\ carRef' = Len(after)
           /\ carLast' = IF carRef # 0 THEN Recreated("markers", carInsts, carRef, after)
                         ELSE [kind |-> "other"]
    /\ UNCHANGED <<CarrySettings, carPhiRef, carThetaRef, carPointer, carMovement, carPhase,
                   carFrames, carEvents>>

\* window resize: handleResize
CarryResize ==
    /\ UNCHANGED carryOthers
    /\ Len(carInsts) < MaxCarryInsts
    /\ carRef # 0
    /\ LET disposed == CarryDispose(carInsts, carRef)
           after == CarryInitGlobe(disposed, carPhiRef, carThetaRef)
       IN  /\ carInsts' = after
           /\ carRef' = Len(after)
           /\ carLast' = Recreated("resize", carInsts, carRef, after)
    /\ UNCHANGED <<CarrySettings, carPhiRef, carThetaRef, carPointer, carMovement, carPhase,
                   carFrames, carEvents>>

\* a tick of the glitch interval that glitches: the instance is disposed, the
\* ref keeps its disposer, the recreate callback is set
CarryGlitchTick ==
    /\ UNCHANGED carryOthers
    /\ carPhase = "idle"
    /\ carRef # 0
    /\ carInsts' = CarryDispose(carInsts, carRef)
    /\ carPhase' = "recreate"
    /\ carLast' = [kind |-> "other"]
    /\ UNCHANGED <<CarrySettings, carRef, carPhiRef, carThetaRef, carPointer, carMovement,
                   carFrames, carEvents>>

\* the 30 ms callback: initGlobe(true), and the restore callback is set
CarryRecreate ==
    /\ UNCHANGED carryOthers
    /\ carPhase = "recreate"
    /\ Len(carInsts) < MaxCarryInsts
    /\ LET after == CarryInitGlobe(carInsts, carPhiRef, carThetaRef)
       IN  /\ carInsts' = after
           /\ carRef' = Len(after)
           /\ carLast' = Recreated("recreate", carInsts, carRef, after)
    /\ carPhase' = "restore"
    /\ UNCHANGED <<CarrySettings, carPhiRef, carThetaRef, carPointer, carMovement,
                   carFrames, carEvents>>

\* the restore callback: the ref's disposer, then initGlobe(false)
CarryRestore ==
    /\ UNCHANGED carryOthers
    /\ carPhase = "restore"
    /\ Len(carInsts) < MaxCarryInsts
    /\ LET disposed == CarryDispose(carInsts, carRef)
           after == CarryInitGlobe(disposed, carPhiRef, carThetaRef)
       IN  /\ carInsts' = after
           /\ carRef' = Len(after)
           /\ carLast' = Recreated("restore", carInsts, carRef, after)
    /\ carPhase' = "idle"
    /\ UNCHANGED <<CarrySettings, carPhiRef, carThetaRef, carPointer, carMovement,
                   carFrames, carEvents>>

CarryNext ==
    \/ CarryOnRender
    \/ \E x \in CarryXs : CarryPointerDown(x)
    \/ \E x \in CarryXs : CarryPointerMove(x)
    \/ CarryPointerUp
    \/ CarryMarkersChange
    \/ CarryResize
    \/ CarryGlitchTick
    \/ CarryRecreate
    \/ CarryRestore

(***************************************************************************)
(* lib/websocket (part_013): one module-level socket with a connection     *)
(* timeout and a reconnect timer.  The module calls setupWebSocket() when  *)
(* it is loaded; components call addWebSocketListener.                     *)
(***************************************************************************)
\* bounds: sockets and reconnect timers created in one run
MaxLibSockets == 3
MaxLibTimers == 3

LibSocketIds == 1 .. MaxLibSockets
LibTimerIds == 1 .. MaxLibTimers

LibSocketsCreated(socks) == Cardinality({i \in LibSocketIds : socks[i] # "NONE"})
LibTimersCreated(timers) == Cardinality({t \in LibTimerIds : timers[t] # "none"})

\* socket.close()
LibClose(socks, id) ==
    IF id # 0 /\ socks[id] \in {"CONNECTING", "OPEN"}
    THEN [socks EXCEPT ![id] = "CLOSING"] ELSE socks

\* window.clearTimeout(reconnectTimeout)
LibClearTimeout(timers, t) ==
    IF t # 0 /\ timers[t] = "pending" THEN [timers EXCEPT ![t] = "done"] ELSE timers

\* window.setTimeout(() => setupWebSocket(), 5000): the timers after the call
LibSetTimeout(timers) == [timers EXCEPT ![LibTimersCreated(timers) + 1] = "pending"]

\* setupWebSocket(): the reconnect timer the module holds is cleared, the
\* socket it holds is closed, a new socket is created with its connection
\* timeout
SetupWebSocket(timers) ==
    LET id == LibSocketsCreated(libSockets) + 1
    IN  /\ id \in LibSocketIds
        /\ libTimers' = LibClearTimeout(timers, reconnectTimeout)
        /\ reconnectTimeout' = 0
        /\ libSockets' = [LibClose(libSockets, socket) EXCEPT ![id] = "CONNECTING"]
        /\ socket' = id
        /\ connectionTimeouts' = connectionTimeouts \cup {id}

\* the module has been loaded: setupWebSocket() has run once
SockStart ==
    /\ socket = 1
    /\ reconnectTimeout = 0
    /\ libSockets = [i \in LibSocketIds |-> IF i = 1 THEN "CONNECTING" ELSE "NONE"]
    /\ connectionTimeouts = {1}
    /\ libTimers = [t \in LibTimerIds |-> "none"]
    /\ sockLast = NoEvent

\* addWebSocketListener: a component subscribes
AddWebSocketListener ==
    /\ UNCHANGED sockOthers
    /\ socket = 0
    /\ SetupWebSocket(libTimers)
    /\ sockLast' = [kind |-> "listen"]

\* socket.onopen
LibOnOpen(id) ==
    /\ UNCHANGED sockOthers
    /\ libSockets[id] = "CONNECTING"
    /\ libSockets' = [libSockets EXCEPT ![id] = "OPEN"]
    /\ connectionTimeouts' = connectionTimeouts \ {id}
    /\ sockLast' = [kind |-> "open"]
    /\ UNCHANGED <<socket, reconnectTimeout, libTimers>>

\* the 10 s connection timeout set when socket id was created; its test
\* reads the module's socket
LibConnectionTimeout(id) ==
    /\ UNCHANGED sockOthers
    /\ id \in connectionTimeouts
    /\ connectionTimeouts' = connectionTimeouts \ {id}
    /\ sockLast' = [kind |-> "timeout"]
    /\ IF socket # 0 /\ libSockets[socket] # "OPEN"
       THEN /\ LibTimersCreated(libTimers) < MaxLibTimers
            /\ libSockets' = LibClose(libSockets, socket)
            /\ socket' = 0
            /\ libTimers' = LibSetTimeout(libTimers)
            /\ reconnectTimeout' = LibTimersCreated(libTimers) + 1
       ELSE UNCHANGED <<libSockets, socket, libTimers, reconnectTimeout>>

\* socket.onclose: the connection of socket id has ended (closed by the
\* module, by the relay, or never established)
LibOnClose(id) ==
    /\ UNCHANGED sockOthers
    /\ libSockets[id] \in {"CONNECTING", "OPEN", "CLOSING"}
    /\ LibTimersCreated(libTimers) < MaxLibTimers
    /\ libSockets' = [libSockets EXCEPT ![id] = "CLOSED"]
    /\ socket' = 0
    /\ libTimers' = LibSetTimeout(libTimers)
    /\ reconnectTimeout' = LibTimersCreated(libTimers) + 1
    /\ sockLast' = [kind |-> "close"]
    /\ UNCHANGED connectionTimeouts

\* a reconnect timer runs: setupWebSocket()
LibReconnect(t) ==
    /\ UNCHANGED sockOthers
    /\ libTimers[t] = "pending"
    /\ SetupWebSocket([libTimers EXCEPT ![t] = "done"])
    /\ sockLast' = [kind |-> "reconnect"]

SockNext ==
    \/ AddWebSocketListener
    \/ \E id \in LibSocketIds : LibOnOpen(id)
    \/ \E id \in LibSocketIds : LibConnectionTimeout(id)
    \/ \E id \in LibSocketIds : LibOnClose(id)
    \/ \E t \in LibTimerIds : LibReconnect(t)

(***************************************************************************)
(* Coordinate validation as a function: validateCoordinates of the         *)
(* component and the validation at the head of coordinatesToPoint, applied *)
(* to whole-degree inputs around the wrap points.                          *)
(***************************************************************************)
CoordLats == {0 - 91, 0 - 90, 0 - 86, 0 - 85, 0, 85, 86, 90, 91}
CoordLngs ==
    {0 - 900, 0 - 600, 0 - 541, 0 - 540, 0 - 539, 0 - 360, 0 - 181, 0 - 180, 0 - 179,
     0 - 1, 0, 1, 179, 180, 181, 359, 360, 540, 541, 900}

\* coordinatesToPoint: validLat and validLng
CoordinatesToPoint(lat, lng) ==
    <<Max(0 - 90, Min(90, lat)), JsRem(lng + 540, 360) - 180>>

CoordStart ==
    /\ coordLat \in CoordLats
    /\ coordLng \in CoordLngs
    /\ coordValid = Undefined
    /\ coordLast = "none"

\* a call of validateCoordinates(lat, lng)
CallValidateCoordinates ==
    /\ UNCHANGED coordOthers
    /\ coordLast # "validateCoordinates"
    /\ coordValid' = Some(ValidateCoordinates(coordLat, coordLng))
    /\ coordLast' = "validateCoordinates"
    /\ UNCHANGED <<coordLat, coordLng>>

\* a call of coordinatesToPoint(lat, lng, state, scale), up to validLng
CallCoordinatesToPoint ==
    /\ UNCHANGED coordOthers
    /\ coordLast # "coordinatesToPoint"
    /\ coordValid' = Some(CoordinatesToPoint(coordLat, coordLng))
    /\ coordLast' = "coordinatesToPoint"
    /\ UNCHANGED <<coordLat, coordLng>>

CoordNext ==
    \/ CallValidateCoordinates
    \/ CallCoordinatesToPoint

(***************************************************************************)
(* The colours of a glitch: initGlobe(true) of the component (first        *)
(* revision of GlobeBackground.tsx, and part_007) and createGlobe of the   *)
(* exported globe.js.  A channel is a number of hundredths, 0 .. 100;      *)
(* a draw of Math.random() is a number of hundredths below 100.            *)
(***************************************************************************)
LandColors == {<<100, 100, 100>>, <<0, 0, 0>>, <<100, 50, 0>>, <<10, 20, 30>>}
HaloColors == {<<80, 80, 100>>, <<0, 10, 100>>, <<100, 100, 100>>}
ColorDraws == {0, 98}

Abs(a) == IF a < 0 THEN 0 - a ELSE a

\* Math.min(1, c + (Math.random() * 0.5 - 0.2))
Distort(c, r) == Min(100, c + (r \div 2 - 20))

\* Math.min(1, Math.abs(c + (Math.random() * 1.0 - 0.5)))
DistortAbs(c, r) == Min(100, Abs(c + (r - 50)))

\* Math.min(1, Math.abs(1 - c))
Invert(c) == Min(100, Abs(100 - c))

DistortColor(color, draws) == [i \in 1 .. 3 |-> Distort(color[i], draws[i])]
DistortAbsColor(color, draws) == [i \in 1 .. 3 |-> DistortAbs(color[i], draws[i])]
InvertColor(color) == [i \in 1 .. 3 |-> Invert(color[i])]

DrawTriples == ColorDraws \X ColorDraws \X ColorDraws

ColorStart ==
    /\ colLand \in LandColors
    /\ colHalo \in HaloColors
    /\ colBase = colLand
    /\ colGlow = colHalo
    /\ colLast = "none"

\* initGlobe(true), first revision of GlobeBackground.tsx
InitGlobeGlitchColors(d1, d2) ==
    /\ UNCHANGED colorOthers
    /\ colBase' = DistortColor(colLand, d1)
    /\ colGlow' = DistortColor(colHalo, d2)
    /\ colLast' = "first"
    /\ UNCHANGED <<colLand, colHalo>>

\* initGlobe(true), part_007: the glow is inverted when Math.random() > 0.5
InitGlobeGlitchColors007(d1, invert, d2) ==
    /\ UNCHANGED colorOthers
    /\ colBase' = DistortAbsColor(colLand, d1)
    /\ colGlow' = IF invert THEN InvertColor(colHalo) ELSE DistortAbsColor(colHalo, d2)
    /\ colLast' = "part007"
    /\ UNCHANGED <<colLand, colHalo>>

\* createGlobe with useGlitchColors, exported globe.js
CreateGlobeGlitchColors(d1, d2) ==
    /\ UNCHANGED colorOthers
    /\ colBase' = DistortColor(colLand, d1)
    /\ colGlow' = DistortColor(colHalo, d2)
    /\ colLast' = "export"
    /\ UNCHANGED <<colLand, colHalo>>

ColorNext ==
    \/ \E d1 \in DrawTriples, d2 \in DrawTriples : InitGlobeGlitchColors(d1, d2)
    \/ \E d1 \in DrawTriples, d2 \in DrawTriples, invert \in BOOLEAN :
           InitGlobeGlitchColors007(d1, invert, d2)
    \/ \E d1 \in DrawTriples, d2 \in DrawTriples : CreateGlobeGlitchColors(d1, d2)

\* the idle values of each part
RelayIdle ==
    /\ recentVisitorLocations = <<>>
    /\ wssClients = <<>>
    /\ srvNow = Time(0, 0)
    /\ accepted = <<>>
    /\ lastEvent = NoEvent
    /\ sentLog = <<>>

FeedIdle ==
    /\ showVisitorMarkers = FALSE
    /\ feedMounted = FALSE
    /\ visitorMarkers = <<>>
    /\ storedVisitorLocation = NoItem
    /\ sockets = <<>>
    /\ websocketRef = 0
    /\ geoRequests = {}
    /\ reconnectTimers = 0
    /\ cliNow = Time(0, 0)
    /\ devicePosition = Denied
    /\ inboundCount = 0
    /\ inserted = <<>>
    /\ feedLast = NoEvent

DragIdle ==
    /\ revision = "second"
    /\ autoRotate = FALSE
    /\ rotationSpeed = 0
    /\ mouseSensitivity = 0
    /\ phiRef = 0
    /\ thetaRef = 0
    /\ pointerInteracting = Undefined
    /\ pointerInteractionMovement = 0
    /\ frameCount = 0
    /\ pointerCount = 0
    /\ dragStartPhi = 0
    /\ dragLastX = 0
    /\ dragDeltaSum = 0
    /\ dragAutoSum = 0
    /\ movedSinceFrame = FALSE
    /\ dragLast = NoEvent

LifeIdle ==
    /\ lifeMounted = FALSE
    /\ glitchEffect = FALSE
    /\ landColor = 1
    /\ haloColor = 1
    /\ instances = <<>>
    /\ globeInstanceRef = 0
    /\ glitchTimerRef = Undefined
    /\ pendingRecreate = Undefined
    /\ pendingRestore = Undefined
    /\ pendingScanline = FALSE
    /\ scanlines = FALSE
    /\ lifeLast = NoEvent

TimedIdle ==
    /\ clock = 0
    /\ intervalDeadline = Undefined
    /\ lastGlitchTimeRef = 0
    /\ recreateTimers = <<>>
    /\ restoreTimers = <<>>
    /\ timedLast = NoEvent

VisitIdle ==
    /\ visitRevision = "first"
    /\ visitMounted = FALSE
    /\ visitShow = FALSE
    /\ visitStorage = NoItem
    /\ visitMarkers = <<>>
    /\ visitGeoPending = 0
    /\ visitNow = NowStart
    /\ visitPosition = Denied
    /\ visitMounts = 0
    /\ visitLast = NoEvent

BuildIdle ==
    /\ buildRevision = "first"
    /\ buildMounted = FALSE
    /\ buildRef = 0
    /\ builds = [i \in BuildIds |-> "none"]
    /\ buildLast = NoEvent

ArcsIdle ==
    /\ showArcs = FALSE
    /\ connectionArcs = <<>>
    /\ arcTicks = 0
    /\ arcAnimationRef = FALSE
    /\ arcsDueBy = "none"
    /\ arcsLast = NoEvent

ExportIdle ==
    /\ expAutoRotate = FALSE
    /\ expRotationSpeed = 3
    /\ expMouseSensitivity = 40
    /\ prePhi = 0
    /\ preTheta = 0
    /\ prePointer = Undefined
    /\ prePointerY = 0
    /\ expPhi = 0
    /\ expTheta = 0
    /\ expPointer = Undefined
    /\ expMovement = 0
    /\ expFrames = 0
    /\ expEvents = 0
    /\ expLast = NoEvent

CarryIdle ==
    /\ carAutoRotate = FALSE
    /\ carInsts = <<>>
    /\ carRef = 0
    /\ carPhiRef = 0
    /\ carThetaRef = 0
    /\ carPointer = Undefined
    /\ carMovement = 0
    /\ carPhase = "idle"
    /\ carFrames = 0
    /\ carEvents = 0
    /\ carLast = NoEvent

SockIdle ==
    /\ socket = 0
    /\ reconnectTimeout = 0
    /\ libSockets = [i \in LibSocketIds |-> "NONE"]
    /\ connectionTimeouts = {}
    /\ libTimers = [t \in LibTimerIds |-> "none"]
    /\ sockLast = NoEvent

CoordIdle ==
    /\ coordLat = 0
    /\ coordLng = 0
    /\ coordValid = Undefined
    /\ coordLast = "none"

ColorIdle ==
    /\ colLand = <<0, 0, 0>>
    /\ colHalo = <<0, 0, 0>>
    /\ colBase = <<0, 0, 0>>
    /\ colGlow = <<0, 0, 0>>
    /\ colLast = "none"

RelayInit == RelayStart /\ FeedIdle /\ DragIdle /\ LifeIdle /\ TimedIdle /\ VisitIdle /\ BuildIdle /\ ArcsIdle /\ ExportIdle /\ CarryIdle /\ SockIdle /\ CoordIdle /\ ColorIdle
SpecRelay == RelayInit /\ [][RelayNext]_vars

FeedInit == FeedStart /\ RelayIdle /\ DragIdle /\ LifeIdle /\ TimedIdle /\ VisitIdle /\ BuildIdle /\ ArcsIdle /\ ExportIdle /\ CarryIdle /\ SockIdle /\ CoordIdle /\ ColorIdle
SpecFeed == FeedInit /\ [][FeedNext]_vars

DragInit == DragStart /\ RelayIdle /\ FeedIdle /\ LifeIdle /\ TimedIdle /\ VisitIdle /\ BuildIdle /\ ArcsIdle /\ ExportIdle /\ CarryIdle /\ SockIdle /\ CoordIdle /\ ColorIdle
SpecDrag == DragInit /\ [][DragNext]_vars

LifeInit == LifeStart /\ RelayIdle /\ FeedIdle /\ DragIdle /\ TimedIdle /\ VisitIdle /\ BuildIdle /\ ArcsIdle /\ ExportIdle /\ CarryIdle /\ SockIdle /\ CoordIdle /\ ColorIdle
SpecLife == LifeInit /\ [][LifeNext]_vars

TimedInit == TimedStart /\ RelayIdle /\ FeedIdle /\ DragIdle /\ LifeIdle /\ VisitIdle /\ BuildIdle /\ ArcsIdle /\ ExportIdle /\ CarryIdle /\ SockIdle /\ CoordIdle /\ ColorIdle
SpecTimed == TimedInit /\ [][TimedNext]_vars

VisitInit == VisitStart /\ RelayIdle /\ FeedIdle /\ DragIdle /\ LifeIdle /\ TimedIdle /\ BuildIdle /\ ArcsIdle /\ ExportIdle /\ CarryIdle /\ SockIdle /\ CoordIdle /\ ColorIdle
SpecVisit == VisitInit /\ [][VisitNext]_vars

BuildInit == BuildStart /\ RelayIdle /\ FeedIdle /\ DragIdle /\ LifeIdle /\ TimedIdle /\ VisitIdle /\ ArcsIdle /\ ExportIdle /\ CarryIdle /\ SockIdle /\ CoordIdle /\ ColorIdle
SpecBuild == BuildInit /\ [][BuildNext]_vars

ArcsInit == ArcsStart /\ RelayIdle /\ FeedIdle /\ DragIdle /\ LifeIdle /\ TimedIdle /\ VisitIdle /\ BuildIdle /\ ExportIdle /\ CarryIdle /\ SockIdle /\ CoordIdle /\ ColorIdle
SpecArcs == ArcsInit /\ [][ArcsNext]_vars

ExportInit == ExportStart /\ RelayIdle /\ FeedIdle /\ DragIdle /\ LifeIdle /\ TimedIdle /\ VisitIdle /\ BuildIdle /\ ArcsIdle /\ CarryIdle /\ SockIdle /\ CoordIdle /\ ColorIdle
SpecExport == ExportInit /\ [][ExportNext]_vars

CarryInit == CarryStart /\ RelayIdle /\ FeedIdle /\ DragIdle /\ LifeIdle /\ TimedIdle /\ VisitIdle /\ BuildIdle /\ ArcsIdle /\ ExportIdle /\ SockIdle /\ CoordIdle /\ ColorIdle
SpecCarry == CarryInit /\ [][CarryNext]_vars

SockInit == SockStart /\ RelayIdle /\ FeedIdle /\ DragIdle /\ LifeIdle /\ TimedIdle /\ VisitIdle /\ BuildIdle /\ ArcsIdle /\ ExportIdle /\ CarryIdle /\ CoordIdle /\ ColorIdle
SpecSock == SockInit /\ [][SockNext]_vars

CoordInit == CoordStart /\ RelayIdle /\ FeedIdle /\ DragIdle /\ LifeIdle /\ TimedIdle /\ VisitIdle /\ BuildIdle /\ ArcsIdle /\ ExportIdle /\ CarryIdle /\ SockIdle /\ ColorIdle
SpecCoord == CoordInit /\ [][CoordNext]_vars

ColorInit == ColorStart /\ RelayIdle /\ FeedIdle /\ DragIdle /\ LifeIdle /\ TimedIdle /\ VisitIdle /\ BuildIdle /\ ArcsIdle /\ ExportIdle /\ CarryIdle /\ SockIdle /\ CoordIdle
SpecColor == ColorInit /\ [][ColorNext]_vars

(***************************************************************************)
(* Claims about the relay server                                           *)
(***************************************************************************)

\* C7: after every handler the buffer holds at most 30 entries and equals the
\* most recent (up to 30) accepted locations in arrival order, so the entry an
\* insertion past 30 removes is the oldest one.
C7_BufferIsLast30 ==
    /\ Len(recentVisitorLocations) <= MAX_STORED_LOCATIONS
    /\ recentVisitorLocations = LastN(accepted, MAX_STORED_LOCATIONS)

\* C7 witness: an insertion took the buffer past 30 and one entry was evicted
C7_Witness ==
    /\ lastEvent.kind = "message"
    /\ IsNewVisitor(lastEvent.msg)
    /\ Len(accepted) = MAX_STORED_LOCATIONS + 2
    /\ Len(recentVisitorLocations) = MAX_STORED_LOCATIONS
    /\ recentVisitorLocations[1] = accepted[3]

\* C8: a new_visitor message carrying latitude and longitude makes the server
\* send exactly one visitor_location message with that location to every other
\* client that is OPEN at that moment, and nothing to the sender or to a
\* client that is not OPEN.
C8_BroadcastToOthers ==
    (lastEvent.kind = "message" /\ IsNewVisitor(lastEvent.msg)) =>
        LET loc == accepted[Len(accepted)]
        IN  /\ loc.latitude = lastEvent.msg.latitude[1]
            /\ loc.longitude = lastEvent.msg.longitude[1]
            /\ \A d \in Clients :
                 sentLog[d] =
                    IF d # lastEvent.client /\ wssClients[d] = "OPEN"
                    THEN <<[type |-> "visitor_location", location |-> loc]>>
                    ELSE <<>>

\* C8 witness: a broadcast with an open receiver and a closing non-receiver
C8_Witness ==
    /\ lastEvent.kind = "message"
    /\ IsNewVisitor(lastEvent.msg)
    /\ \E d \in Clients : d # lastEvent.client /\ Len(sentLog[d]) = 1
    /\ \E d \in Clients : wssClients[d] = "CLOSING" /\ sentLog[d] = <<>>
    /\ sentLog[lastEvent.client] = <<>>

\* C9 as stated: every connecting client is sent one initial_locations message
\* holding the buffer.
C9_AlwaysGreeted ==
    lastEvent.kind = "connection" =>
        sentLog[lastEvent.client] =
            <<[type |-> "initial_locations", locations |-> recentVisitorLocations]>>

\* C9 amended: a client that connects while the buffer is non-empty is sent
\* exactly one initial_locations message holding the buffer (at most 30
\* entries); a client that connects while the buffer is empty is sent
\* nothing; no other client is sent anything by the connection.
C9_GreetedWhenNonEmpty ==
    lastEvent.kind = "connection" =>
        /\ sentLog[lastEvent.client] =
             IF Len(recentVisitorLocations) > 0
             THEN <<[type |-> "initial_locations",
                     locations |-> recentVisitorLocations]>>
             ELSE <<>>
        /\ Len(recentVisitorLocations) <= MAX_STORED_LOCATIONS
        /\ \A d \in Clients \ {lastEvent.client} : sentLog[d] = <<>>

\* C9 witness: a client connected to a full buffer and got its 30 entries
C9_Witness ==
    /\ lastEvent.kind = "connection"
    /\ Len(sentLog[lastEvent.client]) = 1
    /\ Len(sentLog[lastEvent.client][1].locations) = MAX_STORED_LOCATIONS
    /\ Len(accepted) > MAX_STORED_LOCATIONS


(***************************************************************************)
(* Claims about the visitor-marker feed                                    *)
(***************************************************************************)

\* C4 as stated: the live visitor-marker list never holds more than 12
\* markers, whatever the sequence of insertions from the stored marker, the
\* geolocation result or fallback, and the inbound messages.
C4_NeverMoreThan12 ==
    Len(visitorMarkers) <= MaxMarkers

\* the number of entries of list whose timestamp is at least t
CountGE(list, t) ==
    Cardinality({i \in 1 .. Len(list) : TimeGE(list[i].timestamp, t)})

\* list holds exactly 12 entries, each of them inserted, and their timestamps
\* are the 12 greatest among the timestamps of everything inserted
HoldsGreatest(list, all) ==
    /\ Len(list) = MaxMarkers
    /\ \A i \in 1 .. Len(list) : \E k \in 1 .. Len(all) : list[i] = all[k]
    /\ \A k \in 1 .. Len(all) :
         CountGE(list, all[k].timestamp) = Min(MaxMarkers, CountGE(all, all[k].timestamp))

\* insertion order is timestamp order
InTimestampOrder(all) ==
    \A i \in 1 .. Len(all) - 1 : TimeGE(all[i + 1].timestamp, all[i].timestamp)

\* C5 as stated: once inbound messages have been processed and more than 12
\* markers were inserted, the list has exactly 12 entries and they are the 12
\* with the greatest timestamps among all markers inserted, whatever the order
\* of arrival.
C5_KeepsGreatestTimestamps ==
    (feedLast.kind = "message" /\ Len(inserted) > MaxMarkers) =>
        HoldsGreatest(visitorMarkers, inserted)

\* C5 amended: after an inbound message that carries locations is processed,
\* the list holds the most recently inserted markers, at most 12, in insertion
\* order; when more than 12 were inserted and they arrived in timestamp order
\* these are the 12 with the greatest timestamps.
C5_KeepsLastInserted ==
    feedLast.kind = "message" =>
        /\ visitorMarkers = LastN(inserted, MaxMarkers)
        /\ (Len(inserted) > MaxMarkers /\ InTimestampOrder(inserted)) =>
               HoldsGreatest(visitorMarkers, inserted)

\* C5 witness: two batches totalling 15 entries arrived in timestamp order
\* and the three oldest entries were evicted
C5_Witness ==
    /\ feedLast.kind = "message"
    /\ Len(inserted) >= 15
    /\ InTimestampOrder(inserted)
    /\ Len(visitorMarkers) = MaxMarkers
    /\ visitorMarkers[1] = inserted[Len(inserted) - MaxMarkers + 1]

\* the record's timestamp plus thirty days is not before now
AtMostThirtyDaysOld(now, timestamp) ==
    TimeGE(Time(timestamp.d + 30, timestamp.ms), now)

\* C6: when the effect runs with the feature enabled and finds a stored
\* record, a record aged at most 30 days becomes the single marker of the list
\* and stays stored; an older record yields no marker and is removed from
\* storage.
C6_ThirtyDayExpiry ==
    (feedLast.kind = "effect" /\ feedLast.stored.kind = "record") =>
        LET rec == feedLast.stored
        IN  IF AtMostThirtyDaysOld(cliNow, rec.timestamp)
            THEN /\ visitorMarkers =
                      <<[location |-> ValidateCoordinates(rec.location[1], rec.location[2]),
                         timestamp |-> rec.timestamp]>>
                 /\ storedVisitorLocation = rec
            ELSE /\ visitorMarkers = feedLast.prev
                 /\ \A i \in 1 .. Len(visitorMarkers) :
                      visitorMarkers[i].timestamp # rec.timestamp
                 /\ storedVisitorLocation = NoItem

\* C6 witness: a record aged exactly thirty days was reconstituted on mount
C6_Witness ==
    /\ feedLast.kind = "effect"
    /\ feedLast.stored.kind = "record"
    /\ TimeMinus(cliNow, feedLast.stored.timestamp) = ThirtyDays
    /\ Len(visitorMarkers) = 1
    /\ visitorMarkers[1].timestamp = feedLast.stored.timestamp

(***************************************************************************)
(* Claims about rotation and drag                                          *)
(***************************************************************************)

\* C2 as stated: while a drag is in progress no rendered frame adds the
\* auto-rotation increment to phi; in particular a frame rendered during a
\* drag with no pointer movement since the previous frame (or since the
\* pointer went down) leaves phi as it was.
C2_NoAutoRotationWhileDragging ==
    (dragLast.kind = "render" /\ dragLast.dragging /\ ~dragLast.moved) =>
        phiRef = dragLast.phiBefore

\* the rotation per pixel of drag, in PhiUnit, of the revision that runs
SensitivityFactor ==
    IF revision = "first" THEN 20 * mouseSensitivity ELSE mouseSensitivity

\* C3 as stated: when a drag session ends, phi equals phi at the start of the
\* drag plus the sum of the move deltas times the sensitivity factor (of either
\* sign), auto-rotation aside, however the moves were interleaved with frames.
C3_DragSumsDeltas ==
    (dragLast.kind = "up" /\ dragLast.dragging) =>
        \E sign \in {1, 0 - 1} :
            phiRef = dragStartPhi + sign * dragDeltaSum * SensitivityFactor + dragAutoSum

(***************************************************************************)
(* Claims about the renderer lifecycle and the glitch timer                *)
(***************************************************************************)

\* C1 as stated: at every moment at most one renderer instance is live, and
\* an instance is created only after the disposer of the instance created
\* before it has been called: every instance but the newest is disposed.
C1_AtMostOneLiveInstance ==
    /\ Cardinality({i \in 1 .. Len(instances) : instances[i].live}) <= 1
    /\ \A i \in 1 .. Len(instances) - 1 : instances[i].disposeCalls >= 1

\* C10 as stated: right after glitchEffect is switched off, the land or halo
\* colour changes, or the component is torn down, no callback of a glitch
\* cycle is pending (recreate, restore, scanline removal), and after a
\* switch-off or teardown the polling timer is not armed either.
C10_GlitchTimersCancelled ==
    lifeLast.kind \in {"glitchOff", "landColor", "haloColor", "unmount"} =>
        /\ pendingRecreate = Undefined
        /\ pendingRestore = Undefined
        /\ ~pendingScanline
        /\ lifeLast.kind \in {"glitchOff", "unmount"} => glitchTimerRef = Undefined

(***************************************************************************)
(* Claims about glitch scheduling                                          *)
(***************************************************************************)

\* C11 as stated: a new glitch cycle never begins while the recreate or
\* restore callback of an earlier cycle is pending, so at most one callback
\* of a glitch cycle is pending at any time, whatever the timing.
C11_NoOverlappingCycles ==
    Len(recreateTimers) + Len(restoreTimers) <= 1

(***************************************************************************)
(* Claims about the feed's reconnection and geolocation                    *)
(***************************************************************************)

\* C12 as stated: at no time is more than one reconnect timer pending.
C12_OneReconnectTimer ==
    reconnectTimers <= 1

\* C13 as stated: after teardown or after showVisitorMarkers is switched off
\* no reconnect callback runs and no new relay connection is opened, so a
\* reconnect callback (the step that takes a timer off the pending ones) only
\* ever runs on a mounted component with the feature on.
C13_NoReconnectAfterTeardown ==
    [][(reconnectTimers' < reconnectTimers) => (feedMounted /\ showVisitorMarkers)]_vars

\* the coordinate lies inside one of the populated-region bounding boxes
InPopulatedRegion(loc) ==
    \E i \in 1 .. Len(PopulatedRegions) :
        LET r == PopulatedRegions[i]
        IN  /\ r.minLat <= loc[1] /\ loc[1] <= r.maxLat
            /\ r.minLng <= loc[2] /\ loc[2] <= r.maxLng

\* C15 as stated: whenever the geolocation request fails (the step that
\* answers a pending request of a visitor whose position is denied) on a
\* mounted component with the feature on, a marker for a synthetic coordinate inside a populated-region box
\* is added to the list; the visitor is never left without a marker of their own.
C15_FallbackMarkerAdded ==
    [][(/\ devicePosition = Denied
        /\ geoRequests' # geoRequests /\ geoRequests' \subseteq geoRequests
        /\ feedMounted /\ showVisitorMarkers)
       => (/\ Len(visitorMarkers') > 0
           /\ visitorMarkers'[Len(visitorMarkers')].timestamp = cliNow
           /\ InPopulatedRegion(visitorMarkers'[Len(visitorMarkers')].location)
           /\ Len(inserted') = Len(inserted) + 1)]_vars

(***************************************************************************)
(* C14: geolocation is attempted when no valid record is stored.           *)
(***************************************************************************)
\* C14 as stated: whenever the effect has run on a mount with the visitor-marker
\* feature enabled and storage held no valid record (none, unparsable, or older
\* than thirty days), that run requested the browser's position.
C14_GeolocationAttempted ==
    (/\ visitLast.kind = "effect"
     /\ visitLast.show
     /\ NoValidRecord(visitLast.stored, visitNow))
        => visitLast.requested

(***************************************************************************)
(* C16: a construction that throws leaves nothing registered and is        *)
(* retried by the next event.                                              *)
(***************************************************************************)
\* C16 as stated: after an event whose construction threw, the instance
\* reference is empty; and a resize, settings change or marker-list change
\* that follows a failed construction attempts construction again.
C16_FailedBuildLeavesNoInstance ==
    /\ (buildMounted /\ buildLast.failed) => buildRef = 0
    /\ (buildLast.kind \in {"resize", "settings"} /\ buildLast.afterFailure)
           => buildLast.attempted

C18_ExportFollowsPreview ==
    expLast.kind = "render" => (expPhi = prePhi /\ expTheta = preTheta)

(***************************************************************************)
(* C19: phi and theta are carried over every recreation.                   *)
(***************************************************************************)
\* C19 as stated: every recreation (resize, marker-list or settings change,
\* glitch recreate, glitch restore) starts the new instance at the phi and
\* theta the previously registered instance showed in its last frame.
C19_AnglesCarriedOver ==
    carLast.kind = "create" => carLast.start = carLast.prev

(***************************************************************************)
(* C20: a glitch cycle disposes once, distorts once and restores.          *)
(***************************************************************************)
\* C20 as stated: a glitch cycle disposes the instance it found once (no
\* instance has its disposer called twice), also when a resize or a settings
\* change falls into the cycle, and once the restore callback has run on the
\* mounted component no instance with distorted colours is live.
C20_GlitchCycleCompletes ==
    /\ \A i \in 1 .. Len(instances) : instances[i].disposeCalls <= 1
    /\ (lifeLast.kind = "restore" /\ lifeMounted)
           => \A i \in 1 .. Len(instances) : ~(instances[i].live /\ instances[i].glitch)

C22_ArcsQuiescentWhenDisabled ==
    (~showArcs /\ arcsLast.kind = "effect" /\ arcsLast.prev = <<>>)
        => (connectionArcs = <<>> /\ ~arcAnimationRef /\ arcsDueBy = "none")

(***************************************************************************)
(* C23: the glitch polling timer is armed while glitchEffect is on.        *)
(***************************************************************************)
\* C23 as stated: whenever the component is mounted with glitchEffect
\* enabled, the glitch polling timer is armed.
C23_GlitchTimerArmed ==
    (lifeMounted /\ glitchEffect) => glitchTimerRef # Undefined

(***************************************************************************)
(* C24: every instance is configured with the current settings.            *)
(***************************************************************************)
\* C24 as stated: on the mounted component the instance created last (the
\* one globeInstanceRef holds) was configured with the current land and halo
\* colours, whichever handler created it: a settings or marker-list change, a
\* resize, or the recreate or restore callback of a glitch cycle.
C24_CreatedWithCurrentSettings ==
    (lifeMounted /\ globeInstanceRef # 0) =>
        /\ instances[globeInstanceRef].landColor = landColor
        /\ instances[globeInstanceRef].haloColor = haloColor

(***************************************************************************)
(* C25: a disposer is called at most once.                                 *)
(***************************************************************************)
\* C25 as stated: no renderer instance has had its disposer called more than
\* once, by whichever of the resize handler, the effect cleanups and the
\* glitch callbacks.
C25_DisposerCalledAtMostOnce ==
    \A i \in 1 .. Len(instances) : instances[i].disposeCalls < 2

(***************************************************************************)
(* C26: at most one relay socket is connecting or open.                    *)
(***************************************************************************)
\* C26 as stated: at any time at most one of the client's relay sockets is
\* connecting or open.
C26_OneLiveSocket ==
    Cardinality({i \in LibSocketIds : libSockets[i] \in {"CONNECTING", "OPEN"}}) <= 1

(***************************************************************************)
(* C27: a drag in which the pointer does not move turns nothing.           *)
(***************************************************************************)
\* C27 as stated: pointerdown sets the drag reference to the event's
\* coordinate, so the frame rendered after a pointerdown without a move
\* in between adds no drag term to phi: globe.js adds its auto-rotation
\* only, the live component adds nothing.
C27_StillDragAddsNothing ==
    [][(expLast.kind = "down" /\ expLast'.kind = "render")
          => /\ expPhi' = expPhi + (IF expAutoRotate
                                    THEN AutoIncrementFirst(expRotationSpeed) ELSE 0)
             /\ prePhi' = prePhi]_vars

(***************************************************************************)
(* C28: the coordinates of the markers handed to the renderer.             *)
(***************************************************************************)
\* C28 as stated: every marker of the list handed to the renderer has its
\* latitude within [-85, 85] and its longitude within [-180, 180], whatever
\* its source (stored record, geolocation, synthetic fallback).
C28_MarkersInRange ==
    \A i \in 1 .. Len(visitMarkers) :
        /\ visitMarkers[i].location[1] >= 0 - 85
        /\ visitMarkers[i].location[1] <= 85
        /\ visitMarkers[i].location[2] >= 0 - 180
        /\ visitMarkers[i].location[2] <= 180

(***************************************************************************)
(* C29: the normalised longitude.                                          *)
(***************************************************************************)
\* C29 as stated: for every longitude G the validator's longitude lies in
\* (-180, 180] and differs from G by a multiple of 360.
C29_LongitudeNormalised ==
    coordValid # Undefined =>
        /\ coordValid[1][2] > 0 - 180
        /\ coordValid[1][2] <= 180
        /\ (coordValid[1][2] - coordLng) % 360 = 0

(***************************************************************************)
(* C30: the channels of the distorted colours.                             *)
(***************************************************************************)
\* C30 as stated: for land and halo colours with channels in [0,1] and for
\* every random draw, each channel of the distorted base colour and glow
\* colour passed to the renderer lies in [0,1].
C30_ChannelsInUnitInterval ==
    colLast # "none" =>
        \A i \in 1 .. 3 : /\ colBase[i] >= 0 /\ colBase[i] <= 100
                          /\ colGlow[i] >= 0 /\ colGlow[i] <= 100
====
